---- MODULE Spec2Model ----
(***************************************************************************)
(* A model of auto-mcp: the adjustments filter (Adjuster), the OpenAPI     *)
(* ingestion (SwaggerParser) with its schema translation, the outbound     *)
(* request pipeline (HTTPAuthManager, HTTPRequestBuilder, HTTPRequester),  *)
(* the server's start-up, serving and shutdown, its OAuth handler stack    *)
(* and tool handler, and the config builder's TUI and export.              *)
(*                                                                         *)
(* The specifications share the variables:                                 *)
(*   SpecAdj    the Adjuster's lookups over every small adjustments value  *)
(*   SpecParse  ParseReader / Init on one SwaggerParser                    *)
(*   SpecBuild  BuildRequest / ApplyAuth over small configs, routes, args  *)
(*   SpecReq    one route executor invocation at a time, with the network, *)
(*              the client timeout and the caller's context                *)
(*   SpecReqFair SpecReq plus the fairness the Go runtime gives            *)
(*   SpecConc   route executors invoked concurrently on one requester      *)
(*   SpecServe  NewServer, its setupTools and Start                        *)
(*   SpecSchema schemaToMCPOptions and getFirstBodySchema over small       *)
(*              schemas and request bodies                                 *)
(*   SpecExport the config builder's ExportRoutesToYamlFile                *)
(*   SpecServeFair SpecServe plus the fairness of the select, Shutdown,    *)
(*              its timer and the listener's send                          *)
(*   SpecRoundTrip the export followed by Adjuster.Load of the file        *)
(*   SpecAuth   one HTTP request through the CORS and auth middleware      *)
(*   SpecTool   one tool call through the tool handler and its executor    *)
(*   SpecNamed  setupTools on documents whose paths differ little          *)
(*   SpecDeclared BuildRequest with the arguments a tool declares          *)
(*   SpecTUI    the config builder's AppModel under keys and messages      *)
(***************************************************************************)
EXTENDS Integers, Sequences, FiniteSets, TLC

VARIABLES
    adjustments,  \* Adjuster.adjustments (*models.MCPAdjustments, may be nil)
    call,         \* the operation last called, with its arguments
    ret,          \* what that operation returned
    doc,          \* SwaggerParser.doc (*openapi3.T)
    routeTools,   \* SwaggerParser.routeTools
    nParses,      \* parses run on this parser so far
    cfg,          \* the shared *config.EndpointConfig
    timeout,      \* HTTPRequester.client.Timeout
    inv,          \* the executor invocation in progress
    executors,    \* the *RouteConfig each route executor closure holds
    invs,         \* the executor invocations running concurrently
    srv,          \* the Server under construction and its mcp tool registry
    app           \* the config builder's tui.AppModel and the messages on their way to it

vars == <<adjustments, call, ret, doc, routeTools, nParses, cfg, timeout, inv,
          executors, invs, srv, app>>

adjVars == <<adjustments>>
parserVars == <<doc, routeTools, nParses>>
reqVars == <<cfg, timeout, inv>>
concVars == <<executors, invs>>

(***************************************************************************)
(* Bounds of the model.                                                    *)
(***************************************************************************)
MaxRoutes == 2        \* entries of Routes / Descriptions
MaxSelMethods == 2    \* methods of one route selection, updates of one path

\* Every sequence over S of length at most n.
SeqsUpTo(S, n) == UNION {[1..k -> S] : k \in 0..n}

Range(s) == {s[i] : i \in DOMAIN s}

(***************************************************************************)
(* Adjuster (internal/parser/adjuster.go)                                  *)
(***************************************************************************)
\* A path is the sequence of its tokens: "/a/{id}" is <<"/", "a", "/", "{", "id", "}">>.
PathA == <<"/", "a">>
PathUpperA == <<"/", "A">>
PathAB == <<"/", "a", "/", "b">>
PathB == <<"/", "b">>
AdjPaths == {PathA, PathUpperA, PathAB}
AdjMethods == {"GET", "POST"}
QueryPaths == AdjPaths \cup {PathB}
QueryMethods == AdjMethods \cup {"get"}
Overrides == {"new 1", "new 2"}
OriginalDesc == "Original description"

\* models.RouteSelection
RouteSelection == [Path : AdjPaths, Methods : SeqsUpTo(AdjMethods, MaxSelMethods)]
\* models.RouteDescription and its updates
DescUpdate == [Method : AdjMethods, NewDescription : Overrides]
RouteDescription == [Path : {PathA, PathAB}, Updates : SeqsUpTo(DescUpdate, MaxSelMethods)]

NilAdjustments == [isNil |-> TRUE, Routes |-> <<>>, Descriptions |-> <<>>]
Adjustments(routes, descs) == [isNil |-> FALSE, Routes |-> routes, Descriptions |-> descs]

\* NewAdjuster: non-nil adjustments with empty lists.
NewAdjuster == Adjustments(<<>>, <<>>)

\* The index of the first element of s satisfying Test, 0 if none: a Go
\* "for _, x := range s" that leaves the loop at the first match.
FirstIndex(s, Test(_)) ==
    IF \E i \in DOMAIN s : Test(s[i])
    THEN CHOOSE i \in DOMAIN s :
             Test(s[i]) /\ \A j \in 1..(i - 1) : ~Test(s[j])
    ELSE 0

\* Adjuster.ExistsInMCP: the scan stops at the first selection whose Path
\* equals route, and answers from that selection's Methods alone.
ExistsInMCP(adj, route, method) ==
    IF adj.isNil \/ Len(adj.Routes) = 0 THEN TRUE
    ELSE LET HasPath(sel) == sel.Path = route
             i == FirstIndex(adj.Routes, HasPath)
         IN  IF i = 0 THEN FALSE
             ELSE LET IsMethod(m) == m = method
                  IN  FirstIndex(adj.Routes[i].Methods, IsMethod) # 0

\* Adjuster.GetDescription: the scan stops ("break") at the first entry whose
\* Path equals route, and returns that entry's first update for the method.
GetDescription(adj, route, method, originalDesc) ==
    IF adj.isNil \/ Len(adj.Descriptions) = 0 THEN originalDesc
    ELSE LET HasPath(d) == d.Path = route
             i == FirstIndex(adj.Descriptions, HasPath)
         IN  IF i = 0 THEN originalDesc
             ELSE LET IsMethod(u) == u.Method = method
                      j == FirstIndex(adj.Descriptions[i].Updates, IsMethod)
                  IN  IF j = 0 THEN originalDesc
                      ELSE adj.Descriptions[i].Updates[j].NewDescription

NoCall == [op |-> "none"]
NoRet == [kind |-> "none"]

NoDoc == [isNil |-> TRUE, ops |-> {}]
NoResult == [kind |-> "none"]
NoResponse == [isNil |-> TRUE]
\* No executor is running.
IdleInv == [pc |-> "idle", executor |-> 0, route |-> [isNil |-> TRUE], args |-> [isNil |-> TRUE],
            ctx |-> "nil", cancelled |-> FALSE, deadline |-> 0, expired |-> FALSE,
            build |-> [err |-> ""], httpReq |-> [isNil |-> TRUE], calls |-> 0,
            sent |-> 0, received |-> 0, upstream |-> NoResponse, result |-> NoResult]
NoCfg == [set |-> FALSE]
\* No executor has been built, none runs, no Server has been made.
NoExecutors == <<>>
NoInvs == <<>>
NoSrv == [pc |-> "none"]
NoApp == [pc |-> "none"]
Unused == executors = NoExecutors /\ invs = NoInvs /\ srv = NoSrv /\ app = NoApp

\* The adjustments an Adjuster can hold: nil (the zero Adjuster), or what
\* NewAdjuster or Load leave there.
AdjusterValues ==
    {NilAdjustments}
    \cup {Adjustments(r, <<>>) : r \in SeqsUpTo(RouteSelection, MaxRoutes)}
    \cup {Adjustments(<<>>, d) : d \in SeqsUpTo(RouteDescription, MaxRoutes)}

InitAdj ==
    /\ adjustments \in AdjusterValues
    /\ call = NoCall
    /\ ret = NoRet
    /\ doc = NoDoc
    /\ routeTools = <<>>
    /\ nParses = 0
    /\ cfg = NoCfg
    /\ timeout = 0
    /\ inv = IdleInv
    /\ Unused

CallExistsInMCP ==
    \E route \in QueryPaths, method \in QueryMethods :
        /\ call = NoCall
        /\ call' = [op |-> "ExistsInMCP", route |-> route, method |-> method]
        /\ ret' = [kind |-> "bool", v |-> ExistsInMCP(adjustments, route, method)]
        /\ UNCHANGED <<adjVars, parserVars, reqVars, concVars, srv, app>>

CallGetDescription ==
    \E route \in QueryPaths, method \in QueryMethods :
        /\ call = NoCall
        /\ call' = [op |-> "GetDescription", route |-> route, method |-> method,
                    original |-> OriginalDesc]
        /\ ret' = [kind |-> "string",
                   v |-> GetDescription(adjustments, route, method, OriginalDesc)]
        /\ UNCHANGED <<adjVars, parserVars, reqVars, concVars, srv, app>>

NextAdj == CallExistsInMCP \/ CallGetDescription

SpecAdj == InitAdj /\ [][NextAdj]_vars

(***************************************************************************)
(* SwaggerParser (package parser): ingestion and route extraction          *)
(***************************************************************************)
MaxOps == 2           \* operations of one spec document
MaxParses == 2        \* ParseReader / Init calls on one parser

PathUsers == <<"/", "users">>
PathUserId == <<"/", "Users", "/", "{", "id", "}">>
PathOrders == <<"/", "orders">>
DocPaths == {PathUsers, PathUserId}
\* The methods a path item of the document may carry an operation for.
DocMethods == {"GET", "POST", "DELETE", "HEAD"}

\* A JSON value of the document's "swagger" / "openapi" member; a string is
\* the sequence of its characters.
JAbsent == [t |-> "absent", s |-> <<>>]
JNumber == [t |-> "number", s |-> <<>>]
JString(chars) == [t |-> "string", s |-> chars]

\* strings.HasPrefix
HasPrefix(s, prefix) ==
    /\ Len(s) >= Len(prefix)
    /\ SubSeq(s, 1, Len(prefix)) = prefix

\* The operation the sample documents declare at (path, method).
OperationOf(path, method) ==
    CASE method = "GET" ->
            [Description |-> "", Summary |-> "List", QueryParams |-> <<"q">>,
             Accept |-> "application/json"]
      [] method = "POST" ->
            [Description |-> "Create", Summary |-> "Create summary",
             QueryParams |-> <<>>, Accept |-> ""]
      [] OTHER ->
            [Description |-> "", Summary |-> "", QueryParams |-> <<>>, Accept |-> ""]

\* The path x method operations of a document: a set of [path, method].
DocOps == [path : DocPaths, method : DocMethods]
Docs == {ops \in SUBSET DocOps : Cardinality(ops) <= MaxOps}
SampleOps == {[path |-> PathUsers, method |-> "GET"], [path |-> PathUserId, method |-> "POST"]}

\* Spec bytes. json: the bytes are a JSON object; shape: whether the rest of
\* the document decodes ("undecodable": json.Unmarshal into openapi2.T and
\* openapi3's loader reject it; "unconvertible": openapi2conv.ToV3 rejects it).
SpecBytes(json, swagger, openapi, shape, ops) ==
    [readable |-> TRUE, json |-> json, swagger |-> swagger, openapi |-> openapi,
     shape |-> shape, ops |-> ops]
Unreadable == [readable |-> FALSE, json |-> FALSE, swagger |-> JAbsent,
               openapi |-> JAbsent, shape |-> "ok", ops |-> {}]

V20 == <<"2", ".", "0">>
SwaggerValues == {JAbsent, JNumber, JString(V20), JString(<<"1", ".", "0">>)}
OpenAPIValues == {JAbsent, JNumber, JString(<<"3", ".", "0", ".", "0">>),
                  JString(<<"2", ".", "0", ".", "0">>), JString(<<"3">>)}

ValidSpecs ==
    {SpecBytes(TRUE, JString(V20), JAbsent, "ok", ops) : ops \in Docs}
    \cup {SpecBytes(TRUE, JAbsent, JString(<<"3", ".", "0", ".", "0">>), "ok", ops) : ops \in Docs}

\* Every combination of version members and shape, over one sample document.
VersionedSpecs ==
    {SpecBytes(TRUE, sw, oa, shape, SampleOps) :
        sw \in SwaggerValues, oa \in OpenAPIValues,
        shape \in {"ok", "undecodable", "unconvertible"}}

ReaderInputs ==
    ValidSpecs \cup VersionedSpecs
    \cup {Unreadable, SpecBytes(FALSE, JAbsent, JAbsent, "ok", SampleOps)}

ParseOk(d) == [err |-> "", doc |-> d]
ParseErr(class) == [err |-> class, doc |-> NoDoc]

\* A conversion that has lost the version test.
convertOpenAPI2to3AnyVersion(data) ==
    IF data.swagger.t # "string" \/ data.shape = "undecodable"
    THEN ParseErr("failed to parse OpenAPI 2.0 spec")
    ELSE IF data.shape = "unconvertible"
    THEN ParseErr("failed to convert OpenAPI 2.0 to 3.0")
    ELSE ParseOk([isNil |-> FALSE, ops |-> data.ops])

\* SwaggerParser.convertOpenAPI2to3: decode into openapi2.T (its Swagger field
\* is a Go string), then the version test, then the conversion.
convertOpenAPI2to3(data) ==
    IF data.swagger.t # "string" \/ data.shape = "undecodable"
    THEN ParseErr("failed to parse OpenAPI 2.0 spec")
    ELSE IF data.swagger.s # V20
    THEN ParseErr("unsupported Swagger version")
    ELSE IF data.shape = "unconvertible"
    THEN ParseErr("failed to convert OpenAPI 2.0 to 3.0")
    ELSE ParseOk([isNil |-> FALSE, ops |-> data.ops])

\* SwaggerParser.detectAndParseOpenAPI
detectAndParseOpenAPI(data) ==
    IF ~data.json
    THEN ParseErr("invalid JSON in OpenAPI spec")
    ELSE IF data.swagger.t = "absent" /\ data.openapi.t = "absent"
    THEN ParseErr("document is missing 'swagger' or 'openapi' version field")
    ELSE IF data.swagger.t # "absent"
    THEN convertOpenAPI2to3(data)
    ELSE IF ~(data.openapi.t = "string" /\ HasPrefix(data.openapi.s, <<"3", ".">>))
    THEN ParseErr("unsupported OpenAPI version")
    ELSE IF data.shape = "undecodable"
    THEN ParseErr("failed to parse OpenAPI spec")
    ELSE ParseOk([isNil |-> FALSE, ops |-> data.ops])

\* SwaggerParser.createRouteConfig
createRouteConfig(adj, path, method) ==
    LET operation == OperationOf(path, method)
        desc == IF operation.Description # "" THEN operation.Description
                ELSE IF operation.Summary # "" THEN operation.Summary
                ELSE ""
        seeded == [k \in {"Content-Type"} |-> "application/json"]
    IN  [Path |-> path,
         Method |-> method,
         Description |-> GetDescription(adj, path, method, desc),
         Headers |-> IF operation.Accept = "" THEN seeded
                     ELSE [k \in {"Content-Type", "Accept"} |->
                              IF k = "Accept" THEN operation.Accept
                              ELSE "application/json"],
         QueryParams |-> operation.QueryParams]

\* strings.ToLower on one token.
ToLower(tok) ==
    CASE tok = "GET" -> "get"
      [] tok = "POST" -> "post"
      [] tok = "PUT" -> "put"
      [] tok = "DELETE" -> "delete"
      [] tok = "PATCH" -> "patch"
      [] tok = "Users" -> "users"
      [] tok = "A" -> "a"
      [] OTHER -> tok

SelectTokens(s, Keep(_)) ==
    LET F[i \in 0..Len(s)] ==
            IF i = 0 THEN <<>>
            ELSE IF Keep(s[i]) THEN Append(F[i - 1], s[i]) ELSE F[i - 1]
    IN  F[Len(s)]

\* A tool name that keeps the braces of path parameters.
ToolNameWithBraces(route) ==
    LET trimmed == IF Len(route.Path) > 0 /\ route.Path[1] = "/"
                   THEN Tail(route.Path) ELSE route.Path
        under == [i \in DOMAIN trimmed |-> IF trimmed[i] = "/" THEN "_" ELSE trimmed[i]]
        joined == <<route.Method, "_">> \o under
    IN  [i \in DOMAIN joined |-> ToLower(joined[i])]

\* The tool name of generateTool: the leading slash trimmed, every other "/"
\* replaced by "_", "{" and "}" removed, the whole lower-cased.
ToolName(route) ==
    LET trimmed == IF Len(route.Path) > 0 /\ route.Path[1] = "/"
                   THEN Tail(route.Path) ELSE route.Path
        under == [i \in DOMAIN trimmed |-> IF trimmed[i] = "/" THEN "_" ELSE trimmed[i]]
        NotBrace(tok) == tok \notin {"{", "}"}
        stripped == SelectTokens(under, NotBrace)
        joined == <<route.Method, "_">> \o stripped
    IN  [i \in DOMAIN joined |-> ToLower(joined[i])]

\* SwaggerParser.generateTool (the tool's name and description)
generateTool(route) ==
    [Name |-> ToolName(route),
     Description |-> <<route.Method, route.Path, route.Description>>]

\* A table that has lost DELETE.
SupportedMethodsWithoutDelete == <<"GET", "POST", "PUT", "PATCH">>

\* The httpMethods table of processOperations, in its order.
SupportedMethods == <<"GET", "POST", "PUT", "DELETE", "PATCH">>

\* processOperations without the ExistsInMCP test.
RoutesOfPathUnfiltered(adj, ops, path) ==
    LET Exists(m) == [path |-> path, method |-> m] \in ops
        methods == SelectTokens(SupportedMethods, Exists)
    IN  [i \in DOMAIN methods |->
            LET routeConfig == createRouteConfig(adj, path, methods[i])
            IN  [RouteConfig |-> routeConfig, Tool |-> generateTool(routeConfig)]]

\* The route tools processOperations appends for one path item.
RoutesOfPath(adj, ops, path) ==
    LET Exposed(m) ==
            /\ [path |-> path, method |-> m] \in ops
            /\ ExistsInMCP(adj, path, m)
        methods == SelectTokens(SupportedMethods, Exposed)
    IN  [i \in DOMAIN methods |->
            LET routeConfig == createRouteConfig(adj, path, methods[i])
            IN  [RouteConfig |-> routeConfig, Tool |-> generateTool(routeConfig)]]

\* SwaggerParser.processOperations over the paths in the order the map
\* iteration yields them.
RECURSIVE processOperations(_, _, _)
processOperations(adj, ops, order) ==
    IF order = <<>> THEN <<>>
    ELSE RoutesOfPath(adj, ops, Head(order)) \o processOperations(adj, ops, Tail(order))

\* The orders a Go map iteration may visit the document's paths in.
PathOrdersOf(ops) ==
    LET paths == {o.path : o \in ops}
    IN  {order \in [1..Cardinality(paths) -> paths] :
            \A i, j \in DOMAIN order : i # j => order[i] # order[j]}

\* What an adjustments file holds: not there, not YAML, or a document.
MissingFile == [exists |-> FALSE, yaml |-> FALSE, content |-> NewAdjuster]
BadYaml == [exists |-> TRUE, yaml |-> FALSE, content |-> NewAdjuster]
YamlFile(content) == [exists |-> TRUE, yaml |-> TRUE, content |-> content]

SelectGetUsers ==
    Adjustments(<<[Path |-> PathUsers, Methods |-> <<"GET">>],
                  [Path |-> PathOrders, Methods |-> <<"POST">>]>>, <<>>)
SelectUserIdTwice ==
    Adjustments(<<[Path |-> PathUserId, Methods |-> <<"POST">>],
                  [Path |-> PathUserId, Methods |-> <<"GET", "DELETE">>]>>,
                <<[Path |-> PathUsers,
                   Updates |-> <<[Method |-> "GET", NewDescription |-> "new 1"]>>]>>)
DescribeOnly ==
    Adjustments(<<>>, <<[Path |-> PathUsers,
                         Updates |-> <<[Method |-> "GET", NewDescription |-> "new 1"]>>]>>)

AdjustmentsFiles == {MissingFile, BadYaml, YamlFile(SelectUserIdTwice), YamlFile(DescribeOnly)}

\* Adjuster.Load: [err, adjustments after the call]
Load(adj, path, file) ==
    IF path = "" THEN [err |-> "", adjustments |-> adj]
    ELSE IF ~file.exists THEN [err |-> "", adjustments |-> adj]
    ELSE IF ~file.yaml THEN [err |-> "yaml", adjustments |-> adj]
    ELSE [err |-> "", adjustments |-> file.content]

OkRet == [kind |-> "ok", err |-> ""]
ErrRet(class) == [kind |-> "error", err |-> class]

InitParse ==
    /\ adjustments \in {NewAdjuster, SelectGetUsers}
    /\ call = NoCall
    /\ ret = NoRet
    /\ doc = NoDoc
    /\ routeTools = <<>>
    /\ nParses = 0
    /\ cfg = NoCfg
    /\ timeout = 0
    /\ inv = IdleInv
    /\ Unused

\* The tail shared by Init and ParseReader: detectAndParseOpenAPI, then
\* processOperations with the adjuster as it is by then.
ParseWith(adj, data) ==
    LET r == detectAndParseOpenAPI(data)
    IN  IF r.err # ""
        THEN /\ ret' = ErrRet(r.err)
             /\ UNCHANGED <<doc, routeTools>>
        ELSE \E order \in PathOrdersOf(r.doc.ops) :
                /\ doc' = r.doc
                /\ routeTools' = routeTools \o processOperations(adj, r.doc.ops, order)
                /\ ret' = OkRet

\* SwaggerParser.ParseReader
ParseReader ==
    /\ nParses < MaxParses
    /\ \E data \in ReaderInputs :
        /\ call' = [op |-> "ParseReader", data |-> data, adjustmentsFile |-> ""]
        /\ nParses' = nParses + 1
        /\ UNCHANGED <<adjustments, reqVars, concVars, srv, app>>
        /\ IF ~data.readable
           THEN /\ ret' = ErrRet("failed to read swagger spec")
                /\ UNCHANGED <<doc, routeTools>>
           ELSE ParseWith(adjustments, data)

\* The spec files Init is given: the valid ones, an unreadable one, one that
\* is not JSON.
InitInputs == ValidSpecs \cup {Unreadable, SpecBytes(FALSE, JAbsent, JAbsent, "ok", SampleOps)}

\* SwaggerParser.Init on the spec file data and the adjustments file.
InitCall(data, adjustmentsFile, file) ==
    /\ call' = [op |-> "Init", data |-> data, adjustmentsFile |-> adjustmentsFile]
    /\ nParses' = nParses + 1
    /\ IF ~data.readable
       THEN /\ ret' = ErrRet("failed to read spec file")
            /\ UNCHANGED <<adjustments, doc, routeTools>>
       ELSE LET loaded == Load(adjustments, adjustmentsFile, file)
            IN  /\ adjustments' = loaded.adjustments
                /\ IF loaded.err # ""
                   THEN /\ ret' = ErrRet("failed to load adjustments file")
                        /\ UNCHANGED <<doc, routeTools>>
                   ELSE ParseWith(loaded.adjustments, data)

\* SwaggerParser.Init
ParserInit ==
    /\ nParses < MaxParses
    /\ \E data \in InitInputs,
          adjustmentsFile \in {"", "adjustments.yaml"},
          file \in AdjustmentsFiles :
        /\ adjustmentsFile = "" => file = MissingFile
        /\ InitCall(data, adjustmentsFile, file)
        /\ UNCHANGED <<reqVars, concVars, srv, app>>

NextParse == ParseReader \/ ParserInit

SpecParse == InitParse /\ [][NextParse]_vars

(***************************************************************************)
(* HTTPAuthManager and HTTPRequestBuilder (package requester)              *)
(***************************************************************************)
MaxArgs == 2          \* arguments of one call

\* Caller-supplied argument values (interface{}).
StrVal(s) == [t |-> "string", s |-> s, n |-> 0]
IntVal(n) == [t |-> "int", s |-> "", n |-> n]
ObjVal(name) == [t |-> "object", s |-> name, n |-> 0]  \* map[string]interface{}{"name": name}
ChanVal == [t |-> "chan", s |-> "", n |-> 0]           \* a value json.Marshal rejects
FileVal == [t |-> "file", s |-> "bytes", n |-> 0]      \* a multipart.File

\* fmt.Sprintf("%v", value)
Sprintf(v) ==
    CASE v.t = "string" -> v.s
      [] v.t = "int" -> ToString(v.n)
      [] v.t = "object" -> "map[name:a]"
      [] v.t = "chan" -> "0xc000010000"
      [] OTHER -> "{bytes}"

ArgValues(key) ==
    CASE key = "id" -> {StrVal("42"), IntVal(7), StrVal("%zz")}
      [] key = "q" -> {StrVal("x")}
      [] key = "body" -> {ObjVal("a"), ChanVal}
      [] OTHER -> {StrVal("f"), FileVal}
ArgKeys == {"id", "q", "body", "file"}

\* params map[string]interface{}: nil, or a map.
NilArgs == [isNil |-> TRUE, m |-> <<>>]
ArgsOf(m) == [isNil |-> FALSE, m |-> m]
ArgMaps ==
    UNION {{m \in [keys -> UNION {ArgValues(k) : k \in keys}] :
                \A k \in keys : m[k] \in ArgValues(k)} :
           keys \in {ks \in SUBSET ArgKeys : Cardinality(ks) <= MaxArgs}}
AllArgs == {NilArgs} \cup {ArgsOf(m) : m \in ArgMaps}

Has(args, key) == (~args.isNil) /\ key \in DOMAIN args.m

\* Header values are token sequences.
JSONType == <<"application/json">>
NoHeaders == [k \in {} |-> <<>>]
\* The map m with m[k] set to v (Go's m[k] = v, http.Header.Set on canonical keys).
SetKey(m, k, v) == [x \in DOMAIN m \cup {k} |-> IF x = k THEN v ELSE m[x]]
\* Go: for k, v := range src { dst[k] = v }
Merge(dst, src) == [x \in DOMAIN dst \cup DOMAIN src |-> IF x \in DOMAIN src THEN src[x] ELSE dst[x]]
\* textproto.CanonicalMIMEHeaderKey on the header names of the model: names
\* that differ only by case are one key of an http.Header; the key is written
\* here as the model's spelling of it.
CanonicalMIMEHeaderKey(k) == IF k = "content-type" THEN "Content-Type" ELSE k
\* The sequences that list every element of S once: the orders a Go map
\* iteration may yield S in.
IterationOrders(S) ==
    {o \in [1..Cardinality(S) -> S] : \A i, j \in 1..Cardinality(S) : o[i] = o[j] => i = j}
\* Reading a Go map[string]string: "" when the key is missing (also on a nil map).
Lookup(m, k) == IF k \in DOMAIN m THEN m[k] ELSE ""

\* requester.RouteConfig, or nil
NilRoute == [isNil |-> TRUE, Path |-> <<>>, Method |-> "", Headers |-> NoHeaders,
             FormFields |-> <<>>, FileUpload |-> ""]
Route(path, method, headers, formFields, fileField) ==
    [isNil |-> FALSE, Path |-> path, Method |-> method, Headers |-> headers,
     FormFields |-> formFields, FileUpload |-> fileField]

UsersId == <<"/", "users", "/", "{", "id", "}">>
Users == <<"/", "users">>
ParserHeaders == [k \in {"Content-Type"} |-> JSONType]

Routes ==
    {Route(path, method, headers, <<>>, "") :
        path \in {UsersId, Users}, method \in {"GET", "POST", "DELETE"},
        headers \in {NoHeaders, ParserHeaders}}
    \cup {Route(Users, "PUT", NoHeaders, <<"q">>, "file"), NilRoute}

\* config.EndpointConfig
AuthTypes == {"none", "basic", "bearer", "api_key", "oauth2", "invalid"}
NoCredentials == [k \in {} |-> ""]
Credentials ==
    [k \in {"username", "password", "token", "key"} |->
        CASE k = "username" -> "testuser"
          [] k = "password" -> "testpass"
          [] k = "token" -> "T"
          [] OTHER -> "K"]
AuthConfigs == {NoCredentials, Credentials, SetKey(Credentials, "header", "X-Custom-Key")}
StaticHeaders == [k \in {"X-Test-Header", "Content-Type"} |->
                    IF k = "X-Test-Header" THEN <<"test-value">> ELSE <<"text/plain">>]
\* Headers as a config file read through viper gives them: lower-case keys.
LowerCaseHeaders == [k \in {"content-type"} |-> <<"text/plain">>]
BaseURL == "http://api.example.com"
EndpointConfig(authType, authConfig, headers) ==
    [set |-> TRUE, BaseURL |-> BaseURL, AuthType |-> authType,
     AuthConfig |-> authConfig, Headers |-> headers]
EndpointConfigs ==
    {EndpointConfig(t, c, h) :
        t \in AuthTypes, c \in AuthConfigs, h \in {NoHeaders, StaticHeaders}}
    \cup {EndpointConfig(t, NoCredentials, LowerCaseHeaders) : t \in {"none", "invalid"}}

\* An ApplyAuth whose default case returns no error.
ApplyAuthLenient(authType, authConfig, req) ==
    CASE authType = "none" -> [err |-> "", req |-> req]
      [] authType = "basic" ->
            [err |-> "",
             req |-> [req EXCEPT !.Header = SetKey(@, "Authorization",
                        <<"Basic ", [base64 |-> <<Lookup(authConfig, "username"), ":",
                                                   Lookup(authConfig, "password")>>]>>)]]
      [] authType \in {"bearer", "oauth2"} ->
            [err |-> "",
             req |-> [req EXCEPT !.Header = SetKey(@, "Authorization",
                        <<"Bearer ", Lookup(authConfig, "token")>>)]]
      [] authType = "api_key" ->
            LET header == IF Lookup(authConfig, "header") = "" THEN "X-API-Key"
                          ELSE Lookup(authConfig, "header")
            IN  [err |-> "",
                 req |-> [req EXCEPT !.Header = SetKey(@, header,
                            <<Lookup(authConfig, "key")>>)]]
      [] OTHER -> [err |-> "", req |-> req]

\* HTTPAuthManager.ApplyAuth on an http.Request: [err, req after the call].
\* SetBasicAuth sets Authorization to "Basic " and the base64 of user:pass.
ApplyAuth(authType, authConfig, req) ==
    CASE authType = "none" -> [err |-> "", req |-> req]
      [] authType = "basic" ->
            [err |-> "",
             req |-> [req EXCEPT !.Header = SetKey(@, "Authorization",
                        <<"Basic ", [base64 |-> <<Lookup(authConfig, "username"), ":",
                                                   Lookup(authConfig, "password")>>]>>)]]
      [] authType = "bearer" ->
            [err |-> "",
             req |-> [req EXCEPT !.Header = SetKey(@, "Authorization",
                        <<"Bearer ", Lookup(authConfig, "token")>>)]]
      [] authType = "api_key" ->
            LET header == IF Lookup(authConfig, "header") = "" THEN "X-API-Key"
                          ELSE Lookup(authConfig, "header")
            IN  [err |-> "",
                 req |-> [req EXCEPT !.Header = SetKey(@, header,
                            <<Lookup(authConfig, "key")>>)]]
      [] authType = "oauth2" ->
            [err |-> "",
             req |-> [req EXCEPT !.Header = SetKey(@, "Authorization",
                        <<"Bearer ", Lookup(authConfig, "token")>>)]]
      [] OTHER -> [err |-> "unsupported auth type", req |-> req]

\* strings.ReplaceAll(url, "{key}", text) on a token sequence.
RECURSIVE ReplaceAll(_, _, _)
ReplaceAll(url, key, text) ==
    IF Len(url) = 0 THEN <<>>
    ELSE IF Len(url) >= 3 /\ url[1] = "{" /\ url[2] = key /\ url[3] = "}"
    THEN <<text>> \o ReplaceAll(SubSeq(url, 4, Len(url)), key, text)
    ELSE <<Head(url)>> \o ReplaceAll(Tail(url), key, text)

\* HTTPRequestBuilder.buildURL: every key of params replaces its placeholder.
\* The argument texts of the model hold no brace, so the map's iteration order
\* does not show in the result: the keys are taken in one order.
RECURSIVE ReplaceEach(_, _, _)
ReplaceEach(url, args, keys) ==
    IF keys = {} THEN url
    ELSE LET key == CHOOSE k \in keys : TRUE
         IN  ReplaceEach(ReplaceAll(url, key, Sprintf(args.m[key])), args, keys \ {key})

buildURL(cfg0, path, args) ==
    ReplaceEach(<<cfg0.BaseURL>> \o path, args, IF args.isNil THEN {} ELSE DOMAIN args.m)

\* url.Parse rejects a "%" that starts no escape.
Parses(tokens) == "%zz" \notin Range(tokens)

NoQuery == [k \in {} |-> ""]
\* url.URL.String() escapes the braces of a placeholder left in the path.
EscapeToken(tok) == IF tok = "{" THEN "%7B" ELSE IF tok = "}" THEN "%7D" ELSE tok

\* A URL as text: its tokens before the "?", and its query (key -> value,
\* written in key order by Values.Encode).
RawURL(tokens) == [tokens |-> tokens, query |-> NoQuery]

\* HTTPRequestBuilder.addQueryParams: q.Set(key, text) for every key of params
\* but "body" and "file".
addQueryParams(tokens, args) ==
    IF ~Parses(tokens) THEN RawURL(tokens)
    ELSE LET keys == IF args.isNil THEN {} ELSE DOMAIN args.m \ {"body", "file"}
         IN  [tokens |-> [i \in DOMAIN tokens |-> EscapeToken(tokens[i])],
              query |-> [k \in keys |-> Sprintf(args.m[k])]]

NoBody == [kind |-> "nil"]
BodyOk(body, contentType) == [err |-> "", body |-> body, contentType |-> contentType]
BodyErr(class) == [err |-> class, body |-> NoBody, contentType |-> <<>>]

\* json.Marshal succeeds unless a value of an unsupported type is reached.
Marshals(v) == v.t # "chan" /\ v.t # "file"

\* HTTPRequestBuilder.createMultipartBody
createMultipartBody(route, args) ==
    LET field == route.FileUpload
        hasFile == Has(args, field) /\ args.m[field].t = "file"
        IsPresent(f) == Has(args, f)
        present == SelectTokens(route.FormFields, IsPresent)
    IN  BodyOk([kind |-> "multipart",
                file |-> IF hasFile THEN <<[name |-> field, data |-> args.m[field].s]>> ELSE <<>>,
                fields |-> [i \in DOMAIN present |->
                               [name |-> present[i], text |-> Sprintf(args.m[present[i]])]]],
               <<"multipart/form-data; boundary=", "boundary">>)

\* json.Marshal of an argument value: the text, as tokens.
jsonMarshal(v) ==
    CASE v.t = "string" -> <<"\"", v.s, "\"">>
      [] v.t = "int" -> <<ToString(v.n)>>
      [] OTHER -> <<"{", "\"", "name", "\"", ":", "\"", v.s, "\"", "}">>

\* json.Unmarshal of such a text into an interface{}: a string, a
\* map[string]interface{}, or a float64 for a number.
jsonUnmarshal(text) ==
    CASE text[1] = "\"" -> StrVal(text[2])
      [] text[1] = "{" -> ObjVal(text[7])
      [] OTHER -> [t |-> "float64", s |-> "",
                   n |-> CHOOSE n \in 0..99 : ToString(n) = text[1]]

\* A createRequestBody that looks for args["body"] before the file upload.
createRequestBodyJSONFirst(route, args) ==
    CASE route.Method = "GET" -> BodyOk(NoBody, <<>>)
      [] OTHER ->
            IF Has(args, "body") /\ Marshals(args.m["body"])
            THEN BodyOk([kind |-> "json", data |-> jsonMarshal(args.m["body"])], JSONType)
            ELSE IF route.FileUpload # "" THEN createMultipartBody(route, args)
            ELSE BodyOk(NoBody, <<>>)

\* HTTPRequestBuilder.createRequestBody
createRequestBody(route, args) ==
    CASE route.Method = "GET" -> BodyOk(NoBody, <<>>)
      [] route.Method \in {"POST", "PUT", "PATCH"} ->
            IF route.FileUpload # "" THEN createMultipartBody(route, args)
            ELSE IF Has(args, "body")
            THEN IF Marshals(args.m["body"])
                 THEN BodyOk([kind |-> "json", data |-> jsonMarshal(args.m["body"])], JSONType)
                 ELSE BodyErr("failed to marshal request body")
            ELSE BodyOk(NoBody, <<>>)
      [] OTHER ->
            IF ~args.isNil
            THEN IF \A k \in DOMAIN args.m : Marshals(args.m[k])
                 THEN BodyOk([kind |-> "json",
                              data |-> [k \in DOMAIN args.m |-> jsonMarshal(args.m[k])]],
                             JSONType)
                 ELSE BodyErr("failed to marshal request body")
            ELSE BodyOk(NoBody, <<>>)

\* The context HTTPRequestBuilder.BuildRequest binds to the HTTP request:
\* "caller" names the context the caller passed, "nil" a nil context.
BoundContext(ctx) == ctx

NoRequest == [isNil |-> TRUE]
BuildErr(class, attempted) == [err |-> class, request |-> NoRequest, attempted |-> attempted]
NoAttempt == [made |-> FALSE]

\* A BuildRequest that drops the error of ApplyAuth.
returnRequestAnyway(auth, request, attempted) ==
    [err |-> "", request |-> request, attempted |-> attempted]

\* The end of BuildRequest: the error of ApplyAuth is returned with no
\* request, and only without one the *Request is returned.
returnRequest(auth, request, attempted) ==
    IF auth.err # ""
    THEN BuildErr("failed to apply authentication", attempted)
    ELSE [err |-> "", request |-> request, attempted |-> attempted]

\* A merge that writes the route's headers into the endpoint's own map.
mergeHeadersInPlace(service, route) ==
    [headers |-> Merge(service, route), service |-> Merge(service, route), route |-> route]

\* The header merge of BuildRequest: a fresh map, the endpoint's headers
\* copied into it, then the route's; [the merged map, and the two shared maps
\* as the merge leaves them].
mergeHeaders(service, route) ==
    [headers |-> Merge(Merge(NoHeaders, service), route), service |-> service, route |-> route]

\* for key, value := range headers { httpReq.Header.Set(key, value) }, the
\* keys visited in the given order.
RECURSIVE setHeaders(_, _, _)
setHeaders(h, headers, order) ==
    IF order = <<>> THEN h
    ELSE setHeaders(SetKey(h, CanonicalMIMEHeaderKey(Head(order)), headers[Head(order)]),
                    headers, Tail(order))

\* The orders in which BuildRequest may range over its merged header map.
HeaderOrders(cfg0, route) ==
    IF route.isNil THEN {<<>>}
    ELSE IterationOrders(DOMAIN mergeHeaders(cfg0.Headers, route.Headers).headers)

\* What BuildRequest returns, with the shared header maps as it leaves them.
Built(r, service, route) ==
    [err |-> r.err, request |-> r.request, attempted |-> r.attempted,
     shared |-> [service |-> service, route |-> route]]

\* HTTPRequestBuilder.BuildRequest, its range over the merged headers taking
\* the given order: [err, the *Request returned, the http.Request before and
\* after ApplyAuth when one was made, the shared header maps afterwards].
BuildRequest(cfg0, route, args, ctx, order) ==
    IF route.isNil
    THEN Built(BuildErr("route config is nil", NoAttempt), cfg0.Headers, route.Headers)
    ELSE
    LET tokens == buildURL(cfg0, route.Path, args)
        url == IF route.Method = "GET" THEN addQueryParams(tokens, args) ELSE RawURL(tokens)
        b == createRequestBody(route, args)
    IN  IF b.err # ""
        THEN Built(BuildErr("failed to create request body", NoAttempt),
                   cfg0.Headers, route.Headers)
        ELSE
        LET merged == mergeHeaders(cfg0.Headers, route.Headers)
            headers == merged.headers
        IN  IF ctx = "nil" \/ ~Parses(url.tokens)
            THEN Built(BuildErr("failed to create HTTP request", NoAttempt),
                       merged.service, merged.route)
            ELSE
            LET created == [Method |-> route.Method, URL |-> url, Body |-> b.body,
                            Header |-> NoHeaders, ctx |-> BoundContext(ctx)]
                withHeaders == [created EXCEPT !.Header =
                                   IF b.contentType # <<>>
                                   THEN SetKey(setHeaders(@, headers, order),
                                               "Content-Type", b.contentType)
                                   ELSE setHeaders(@, headers, order)]
                auth == ApplyAuth(cfg0.AuthType, cfg0.AuthConfig, withHeaders)
                attempted == [made |-> TRUE, before |-> withHeaders, after |-> auth.req]
            IN  Built(returnRequest(auth,
                          [isNil |-> FALSE, URL |-> url, Method |-> route.Method,
                           Body |-> b.body, Headers |-> headers,
                           ContentType |-> b.contentType, HttpRequest |-> auth.req],
                          attempted),
                      merged.service, merged.route)

InitBuild ==
    /\ cfg \in EndpointConfigs
    /\ adjustments = NewAdjuster
    /\ call = NoCall
    /\ ret = NoRet
    /\ doc = NoDoc
    /\ routeTools = <<>>
    /\ nParses = 0
    /\ timeout = 0
    /\ inv = IdleInv
    /\ Unused

\* One call of HTTPRequestBuilder.BuildRequest with the caller's context, on a
\* builder that has not been called yet.
CallBuildRequest ==
    \E route \in Routes, args \in AllArgs :
      \E order \in HeaderOrders(cfg, route) :
        /\ call = NoCall
        /\ call' = [op |-> "BuildRequest", route |-> route, args |-> args]
        /\ ret' = BuildRequest(cfg, route, args, "caller", order)
        /\ UNCHANGED <<adjVars, parserVars, reqVars, concVars, srv, app>>

BareRequest == [Method |-> "GET", URL |-> RawURL(<<BaseURL>>), Body |-> NoBody,
                Header |-> NoHeaders, ctx |-> "caller"]

\* One call of HTTPAuthManager.ApplyAuth on a request that has no header yet.
CallApplyAuth ==
    /\ call = NoCall
    /\ call' = [op |-> "ApplyAuth", req |-> BareRequest]
    /\ ret' = ApplyAuth(cfg.AuthType, cfg.AuthConfig, BareRequest)
    /\ UNCHANGED <<adjVars, parserVars, reqVars, concVars, srv, app>>

NextBuild == CallBuildRequest \/ CallApplyAuth

SpecBuild == InitBuild /\ [][NextBuild]_vars

(***************************************************************************)
(* HTTPRequester (internal/requester/http_requester.go)                    *)
(***************************************************************************)
\* Redirects one call of the client follows in the model (net/http stops
\* after ten).
MaxRedirects == 1

DefaultTimeout == 30000     \* NewHTTPRequester: 30 * time.Second, in ms
TestTimeout == 100          \* the tests' SetTimeout(100 * time.Millisecond)
Timeouts == {0, TestTimeout}

ExecConfigs ==
    {EndpointConfig("none", NoCredentials, StaticHeaders),
     EndpointConfig("bearer", Credentials, NoHeaders),
     EndpointConfig("invalid", NoCredentials, NoHeaders)}
ExecRoutes ==
    {Route(UsersId, "GET", ParserHeaders, <<>>, ""),
     Route(Users, "POST", ParserHeaders, <<>>, ""),
     NilRoute}
ExecArgs ==
    {ArgsOf(NoQuery),
     ArgsOf([k \in {"id", "q"} |-> IF k = "id" THEN StrVal("42") ELSE StrVal("x")]),
     ArgsOf([k \in {"body"} |-> ObjVal("a")]),
     ArgsOf([k \in {"id"} |-> StrVal("%zz")])}

\* What the upstream may answer: any status, a body of several reads.
UpstreamResponses ==
    {[isNil |-> FALSE, status |-> st, body |-> <<"part 1", "part 2">>,
      header |-> [k \in {"Content-Type"} |-> JSONType]] : st \in {200, 399, 400, 404, 500}}

\* http.Request.WithContext
WithContext(req, ctx) == [req EXCEPT !.ctx = ctx]

\* A client built without the requester's Timeout.
NoClientTimeout(t) == 0

\* The time limit of the client that execute sends the request with
\* (r.client.Do): the requester's own client, with its Timeout.
ClientTimeout(t) == t

InitReq ==
    /\ cfg \in ExecConfigs
    /\ timeout = DefaultTimeout
    /\ inv = IdleInv
    /\ adjustments = NewAdjuster
    /\ call = NoCall
    /\ ret = NoRet
    /\ doc = NoDoc
    /\ routeTools = <<>>
    /\ nParses = 0
    /\ Unused

others == <<adjVars, parserVars, call, ret, concVars, srv, app>>

\* HTTPRequester.SetTimeout, between invocations
SetTimeout ==
    /\ inv.pc = "idle"
    /\ \E d \in Timeouts : timeout' = d
    /\ UNCHANGED <<cfg, inv, others>>

ErrorResult(class) == [kind |-> "error", err |-> class, resp |-> NoResponse]

\* An execute that turns a status of 400 and above into an error.
ResponseUnlessErrorStatus(upstream) ==
    IF upstream.status >= 400 THEN ErrorResult("upstream error")
    ELSE [kind |-> "response", err |-> "",
          resp |-> [isNil |-> FALSE, StatusCode |-> upstream.status,
                    Body |-> upstream.body, Headers |-> upstream.header]]

\* What execute returns once the body is read: the Response with the
\* upstream's status code, body and headers, and no error.
ResponseOf(upstream) ==
    [kind |-> "response", err |-> "",
     resp |-> [isNil |-> FALSE, StatusCode |-> upstream.status,
               Body |-> upstream.body, Headers |-> upstream.header]]

\* The closure BuildRouteExecutor returns, from its call to the moment
\* execute has handed the request to r.client.Do: BuildRequest, the return on
\* its error, the context bound again, the client's deadline armed.
Started(cfg0, t, route, args, ctx, order) ==
    LET b == BuildRequest(cfg0, route, args, ctx, order)
        started == [IdleInv EXCEPT !.route = route, !.args = args, !.ctx = ctx,
                                   !.build = b]
    IN  IF b.err # ""
        THEN [started EXCEPT !.pc = "done", !.result = ErrorResult(b.err)]
        ELSE [started EXCEPT
                 !.pc = "do",
                 !.httpReq = IF ctx # "nil"
                             THEN WithContext(b.request.HttpRequest, ctx)
                             ELSE b.request.HttpRequest,
                 !.calls = 1,
                 !.sent = 1,
                 !.deadline = ClientTimeout(t)]

IsPending(i) == i.pc \in {"do", "read"}

\* The pending call has been told to stop: the client's timer has fired, or
\* the context the request carries is done.  net/http then fails the pending
\* Do or body Read rather than completing it.
IsAborted(i) ==
    \/ i.expired
    \/ (i.cancelled /\ i.httpReq.ctx = "caller")

\* The request the client has written reaches the upstream.
DeliverOf(i) ==
    IF i.pc = "do" /\ ~IsAborted(i) /\ i.received < i.sent
    THEN {[i EXCEPT !.received = @ + 1]} ELSE {}

\* r.client.Do returns a response: execute goes on to io.ReadAll.
DoRespondsOf(i) ==
    IF i.pc = "do" /\ ~IsAborted(i) /\ i.received = i.sent
    THEN {[i EXCEPT !.pc = "read", !.upstream = resp] : resp \in UpstreamResponses}
    ELSE {}

\* The upstream answers with a redirect (a 3xx status and a Location): the
\* http.Client of NewHTTPRequester has no CheckRedirect, so inside Do it
\* follows the redirect with a further request (307/308 keep method and body).
DoRedirectsOf(i) ==
    IF i.pc = "do" /\ ~IsAborted(i) /\ i.received = i.sent /\ i.sent <= MaxRedirects
    THEN {[i EXCEPT !.sent = @ + 1]} ELSE {}

\* r.client.Do returns an error (connection, DNS, too many redirects, ...):
\* "request failed".
DoFailsOf(i) ==
    IF i.pc = "do" /\ ~IsAborted(i)
    THEN {[i EXCEPT !.pc = "done", !.result = ErrorResult("request failed")]} ELSE {}

\* r.client.Do returns the timeout / cancellation error.
DoAbortsOf(i) ==
    IF i.pc = "do" /\ IsAborted(i)
    THEN {[i EXCEPT !.pc = "done", !.result = ErrorResult("request failed")]} ELSE {}

\* io.ReadAll returns the whole body: execute returns the Response.
ReadCompletesOf(i) ==
    IF i.pc = "read" /\ ~IsAborted(i)
    THEN {[i EXCEPT !.pc = "done", !.result = ResponseOf(i.upstream)]} ELSE {}

\* io.ReadAll returns an error: "failed to read response body".
ReadFailsOf(i) ==
    IF i.pc = "read" /\ ~IsAborted(i)
    THEN {[i EXCEPT !.pc = "done", !.result = ErrorResult("failed to read response body")]}
    ELSE {}

\* io.ReadAll returns the timeout / cancellation error.
ReadAbortsOf(i) ==
    IF i.pc = "read" /\ IsAborted(i)
    THEN {[i EXCEPT !.pc = "done", !.result = ErrorResult("failed to read response body")]}
    ELSE {}

\* The client's Timeout elapses (a Timeout of zero arms no timer).
TimerFiresOf(i) ==
    IF IsPending(i) /\ i.deadline > 0 /\ ~i.expired
    THEN {[i EXCEPT !.expired = TRUE]} ELSE {}

\* The caller cancels the context it passed.
CancelCtxOf(i) ==
    IF IsPending(i) /\ i.ctx = "caller" /\ ~i.cancelled
    THEN {[i EXCEPT !.cancelled = TRUE]} ELSE {}

\* The caller has taken the result; the executor may be invoked again.
ReturnOf(i) == IF i.pc = "done" THEN {IdleInv} ELSE {}

Invoke ==
    /\ inv.pc = "idle"
    /\ \E route \in ExecRoutes, args \in ExecArgs, ctx \in {"nil", "caller"} :
         \E order \in HeaderOrders(cfg, route) :
            /\ inv' = Started(cfg, timeout, route, args, ctx, order)
            /\ cfg' = [cfg EXCEPT !.Headers = inv'.build.shared.service]
    /\ UNCHANGED <<timeout, others>>

Pending == IsPending(inv)
Aborted == IsAborted(inv)

Deliver == inv' \in DeliverOf(inv) /\ UNCHANGED <<cfg, timeout, others>>
DoResponds == inv' \in DoRespondsOf(inv) /\ UNCHANGED <<cfg, timeout, others>>
DoRedirects == inv' \in DoRedirectsOf(inv) /\ UNCHANGED <<cfg, timeout, others>>
DoFails == inv' \in DoFailsOf(inv) /\ UNCHANGED <<cfg, timeout, others>>
DoAborts == inv' \in DoAbortsOf(inv) /\ UNCHANGED <<cfg, timeout, others>>
ReadCompletes == inv' \in ReadCompletesOf(inv) /\ UNCHANGED <<cfg, timeout, others>>
ReadFails == inv' \in ReadFailsOf(inv) /\ UNCHANGED <<cfg, timeout, others>>
ReadAborts == inv' \in ReadAbortsOf(inv) /\ UNCHANGED <<cfg, timeout, others>>
TimerFires == inv' \in TimerFiresOf(inv) /\ UNCHANGED <<cfg, timeout, others>>
CancelCtx == inv' \in CancelCtxOf(inv) /\ UNCHANGED <<cfg, timeout, others>>
Return == inv' \in ReturnOf(inv) /\ UNCHANGED <<cfg, timeout, others>>

NextReq ==
    \/ SetTimeout
    \/ Invoke
    \/ Deliver
    \/ DoResponds
    \/ DoRedirects
    \/ DoFails
    \/ DoAborts
    \/ ReadCompletes
    \/ ReadFails
    \/ ReadAborts
    \/ TimerFires
    \/ CancelCtx
    \/ Return

SpecReq == InitReq /\ [][NextReq]_vars

\* The Go runtime runs the client's timer and returns an aborted call; nothing
\* makes the upstream answer or the caller cancel.
SpecReqFair ==
    /\ SpecReq
    /\ WF_vars(TimerFires)
    /\ WF_vars(DoAborts)
    /\ WF_vars(ReadAborts)

(***************************************************************************)
(* Concurrent invocations of the route executors of one HTTPRequester.     *)
(***************************************************************************)
MaxProcs == 2
Procs == 1..MaxProcs

\* The one EndpointConfig and AuthManager every executor shares.
ConcConfig == EndpointConfig("bearer", Credentials, StaticHeaders)
AcceptHeaders == [k \in {"Content-Type", "Accept"} |-> JSONType]
\* The RouteConfigs the executors were built for (BuildRouteExecutor keeps
\* the pointer it is given).
ConcRoutes ==
    <<Route(UsersId, "GET", ParserHeaders, <<>>, ""),
      Route(Users, "POST", AcceptHeaders, <<>>, "")>>
ConcArgs ==
    {ArgsOf([k \in {"id"} |-> StrVal("42")]),
     ArgsOf([k \in {"body"} |-> ObjVal("a")])}

InitConc ==
    /\ cfg = ConcConfig
    /\ timeout = DefaultTimeout
    /\ executors = ConcRoutes
    /\ invs = [p \in Procs |-> IdleInv]
    /\ inv = IdleInv
    /\ srv = NoSrv
    /\ app = NoApp
    /\ adjustments = NewAdjuster
    /\ call = NoCall
    /\ ret = NoRet
    /\ doc = NoDoc
    /\ routeTools = <<>>
    /\ nParses = 0

concOthers == <<adjVars, parserVars, call, ret, inv, srv, app>>

\* A goroutine calls one of the executors: BuildRequest runs on the shared
\* EndpointConfig and on the executor's RouteConfig, and leaves their header
\* maps as its merge leaves them.
ConcInvoke ==
    \E p \in Procs, e \in DOMAIN executors, args \in ConcArgs :
      \E order \in HeaderOrders(cfg, executors[e]) :
        LET j == Started(cfg, timeout, executors[e], args, "caller", order)
        IN  /\ invs[p].pc = "idle"
            /\ invs' = [invs EXCEPT ![p] = [j EXCEPT !.executor = e]]
            /\ cfg' = [cfg EXCEPT !.Headers = j.build.shared.service]
            /\ executors' = [executors EXCEPT ![e].Headers = j.build.shared.route]
            /\ UNCHANGED <<timeout, concOthers>>

\* The invocation of goroutine p becomes j; nothing shared is touched.
ConcTakes(p, j) ==
    /\ invs' = [invs EXCEPT ![p] = j]
    /\ UNCHANGED <<cfg, timeout, executors, concOthers>>

ConcDeliver == \E p \in Procs : \E j \in DeliverOf(invs[p]) : ConcTakes(p, j)
ConcDoResponds == \E p \in Procs : \E j \in DoRespondsOf(invs[p]) : ConcTakes(p, j)
ConcDoRedirects == \E p \in Procs : \E j \in DoRedirectsOf(invs[p]) : ConcTakes(p, j)
ConcDoFails == \E p \in Procs : \E j \in DoFailsOf(invs[p]) : ConcTakes(p, j)
ConcDoAborts == \E p \in Procs : \E j \in DoAbortsOf(invs[p]) : ConcTakes(p, j)
ConcReadCompletes == \E p \in Procs : \E j \in ReadCompletesOf(invs[p]) : ConcTakes(p, j)
ConcReadFails == \E p \in Procs : \E j \in ReadFailsOf(invs[p]) : ConcTakes(p, j)
ConcReadAborts == \E p \in Procs : \E j \in ReadAbortsOf(invs[p]) : ConcTakes(p, j)
ConcTimerFires == \E p \in Procs : \E j \in TimerFiresOf(invs[p]) : ConcTakes(p, j)
ConcCancelCtx == \E p \in Procs : \E j \in CancelCtxOf(invs[p]) : ConcTakes(p, j)

NextConc ==
    \/ ConcInvoke
    \/ ConcDeliver
    \/ ConcDoResponds
    \/ ConcDoRedirects
    \/ ConcDoFails
    \/ ConcDoAborts
    \/ ConcReadCompletes
    \/ ConcReadFails
    \/ ConcReadAborts
    \/ ConcTimerFires
    \/ ConcCancelCtx

SpecConc == InitConc /\ [][NextConc]_vars

(***************************************************************************)
(* Server start-up: NewServer with its setupTools, then Start.             *)
(***************************************************************************)
\* config.Server.Mode: the three supported modes and another value.
ServerModes == {"sse", "http", "stdio", "grpc"}
\* The tool registry of the mcp server: tool name -> the route its handler
\* calls.
NoTools == [n \in {} |-> <<>>]
NewSrv(mode) ==
    [pc |-> "new", mode |-> mode, init |-> "", next |-> 0, tools |-> NoTools,
     ctxDone |-> FALSE,     \* the context passed to Start is cancelled
     listener |-> "none",   \* the goroutine running server.ListenAndServe
     errChan |-> <<>>,      \* the errors buffered in errChan
     conns |-> 0,           \* connections of the http.Server that are not idle
     expired |-> FALSE,     \* shutdownCtx has passed its deadline
     result |-> ""]         \* what Start returned

InitServe ==
    /\ srv \in {NewSrv(mode) : mode \in ServerModes}
    /\ app = NoApp
    /\ adjustments = NewAdjuster
    /\ executors = NoExecutors
    /\ invs = NoInvs
    /\ call = NoCall
    /\ ret = NoRet
    /\ doc = NoDoc
    /\ routeTools = <<>>
    /\ nParses = 0
    /\ cfg = NoCfg
    /\ timeout = 0
    /\ inv = IdleInv

\* A setupTools that goes on after a failed Init.
afterInitIgnoringError(err) == "registering"

\* Where NewServer stands once setupTools has called parser.Init: an error
\* is returned to NewServer, whose logger.Fatal ends the process.
afterInit(err) == IF err # "" THEN "exited" ELSE "registering"

\* NewServer up to the return of parser.Init in setupTools.
SetupTools ==
    /\ srv.pc = "new"
    /\ \E data \in InitInputs,
          adjustmentsFile \in {"", "adjustments.yaml"},
          file \in AdjustmentsFiles :
        /\ adjustmentsFile = "" => file = MissingFile
        /\ InitCall(data, adjustmentsFile, file)
    /\ srv' = [srv EXCEPT !.pc = afterInit(ret'.err), !.init = ret'.kind, !.next = 1]
    /\ UNCHANGED <<reqVars, concVars, app>>

\* One round of setupTools' loop: BuildRouteExecutor (which returns no error)
\* and mcp.AddTool under the tool's name.
AddTool ==
    /\ srv.pc = "registering"
    /\ srv.next <= Len(routeTools)
    /\ LET route == routeTools[srv.next]
       IN  /\ executors' = Append(executors, route.RouteConfig)
           /\ srv' = [srv EXCEPT
                         !.tools = SetKey(@, route.Tool.Name,
                                          <<route.RouteConfig.Method, route.RouteConfig.Path>>),
                         !.next = @ + 1]
    /\ UNCHANGED <<adjVars, parserVars, call, ret, reqVars, invs, app>>

\* The loop is over: setupTools and NewServer return the Server.
NewServerReturns ==
    /\ srv.pc = "registering"
    /\ srv.next > Len(routeTools)
    /\ srv' = [srv EXCEPT !.pc = "ready"]
    /\ UNCHANGED <<adjVars, parserVars, call, ret, reqVars, concVars, app>>

MaxConns == 1         \* connections open at once on the http.Server

\* make(chan error, 1)
ErrChanCap == 1

\* An errChan made without a buffer.
Unbuffered(errChan) == FALSE

\* Whether a send on errChan finds room in its buffer.
HasRoom(errChan) == Len(errChan) < ErrChanCap

serveOthers == <<adjVars, parserVars, call, ret, reqVars, concVars, app>>

\* Server.Start on the Server NewServer returned: in SSE and HTTP mode
\* serveHTTP starts the listener goroutine and waits in its select; in STDIO
\* mode the stdio server listens; another mode is the unsupported-mode error.
Start ==
    /\ srv.pc = "ready"
    /\ srv' = IF srv.mode \in {"sse", "http"}
              THEN [srv EXCEPT !.pc = "serving", !.listener = "starting"]
              ELSE IF srv.mode = "stdio"
              THEN [srv EXCEPT !.pc = "serving", !.listener = "stdio"]
              ELSE [srv EXCEPT !.pc = "stopped", !.result = "unsupported server mode"]
    /\ UNCHANGED serveOthers

\* server.ListenAndServe has bound the address and accepts connections.
Listens ==
    /\ srv.listener = "starting"
    /\ srv' = [srv EXCEPT !.listener = "serving"]
    /\ UNCHANGED serveOthers

\* server.ListenAndServe returns an error other than ErrServerClosed (the
\* address is in use, accept fails): the goroutine goes on to send it.
ListenFails ==
    /\ srv.listener \in {"starting", "serving"}
    /\ srv' = [srv EXCEPT !.listener = "sending", !.conns = 0]
    /\ UNCHANGED serveOthers

\* errChan <- fmt.Errorf("server error: %w", err): into the buffer when it has
\* room, or handed to serveHTTP's select when it is receiving.
SendErr ==
    /\ srv.listener = "sending"
    /\ \/ /\ HasRoom(srv.errChan)
          /\ srv' = [srv EXCEPT !.errChan = Append(@, "server error"), !.listener = "done"]
       \/ /\ ~HasRoom(<<>>)
          /\ srv.pc = "serving"
          /\ srv' = [srv EXCEPT !.pc = "returned", !.result = "server error",
                                !.listener = "done"]
    /\ UNCHANGED serveOthers

\* A client opens a connection (an SSE stream, a request in progress).
ConnOpens ==
    /\ srv.listener = "serving"
    /\ srv.conns < MaxConns
    /\ srv' = [srv EXCEPT !.conns = @ + 1]
    /\ UNCHANGED serveOthers

\* A connection ends or becomes idle.
ConnCloses ==
    /\ srv.conns > 0
    /\ srv' = [srv EXCEPT !.conns = @ - 1]
    /\ UNCHANGED serveOthers

\* The caller cancels the context it passed to Start.
CancelStartCtx ==
    /\ srv.pc = "serving"
    /\ ~srv.ctxDone
    /\ srv' = [srv EXCEPT !.ctxDone = TRUE]
    /\ UNCHANGED serveOthers

\* serveHTTP's select takes <-ctx.Done() and calls server.Shutdown, which
\* closes the listener at once: ListenAndServe returns ErrServerClosed and
\* the goroutine ends without a send.
SelectCtxDone ==
    /\ srv.pc = "serving"
    /\ srv.listener # "stdio"
    /\ srv.ctxDone
    /\ srv' = [srv EXCEPT !.pc = "shutdown",
                          !.listener = IF @ \in {"starting", "serving"} THEN "done" ELSE @]
    /\ UNCHANGED serveOthers

\* serveHTTP's select takes err := <-errChan and returns it.
SelectErr ==
    /\ srv.pc = "serving"
    /\ srv.errChan # <<>>
    /\ srv' = [srv EXCEPT !.pc = "returned", !.result = Head(srv.errChan),
                          !.errChan = Tail(@)]
    /\ UNCHANGED serveOthers

\* server.Shutdown finds every connection idle before the deadline: nil.
ShutdownCompletes ==
    /\ srv.pc = "shutdown"
    /\ srv.conns = 0
    /\ ~srv.expired
    /\ srv' = [srv EXCEPT !.pc = "returned", !.result = "nil"]
    /\ UNCHANGED serveOthers

\* shutdownTimeout after the call of Shutdown, shutdownCtx is done.
ShutdownTimerFires ==
    /\ srv.pc = "shutdown"
    /\ ~srv.expired
    /\ srv' = [srv EXCEPT !.expired = TRUE]
    /\ UNCHANGED serveOthers

\* server.Shutdown returns shutdownCtx's error, which serveHTTP wraps.
ShutdownTimesOut ==
    /\ srv.pc = "shutdown"
    /\ srv.expired
    /\ srv' = [srv EXCEPT !.pc = "returned", !.result = "server shutdown error"]
    /\ UNCHANGED serveOthers

\* ServeSTDIO: stdioServer.Listen returns when its context is cancelled.
StdioReturns ==
    /\ srv.pc = "serving"
    /\ srv.listener = "stdio"
    /\ srv.ctxDone
    /\ srv' = [srv EXCEPT !.pc = "returned", !.result = "context canceled",
                          !.listener = "done"]
    /\ UNCHANGED serveOthers

\* A client of the serving server lists its tools.
ListTools ==
    /\ srv.pc = "serving"
    /\ srv.listener \in {"serving", "stdio"}
    /\ call.op # "ListTools"
    /\ call' = [op |-> "ListTools"]
    /\ ret' = [kind |-> "tools", names |-> DOMAIN srv.tools]
    /\ UNCHANGED <<adjVars, parserVars, reqVars, concVars, srv, app>>

NextServe ==
    \/ SetupTools \/ AddTool \/ NewServerReturns \/ Start \/ ListTools
    \/ Listens \/ ListenFails \/ SendErr \/ ConnOpens \/ ConnCloses
    \/ CancelStartCtx \/ SelectCtxDone \/ SelectErr
    \/ ShutdownCompletes \/ ShutdownTimerFires \/ ShutdownTimesOut \/ StdioReturns

SpecServe == InitServe /\ [][NextServe]_vars

\* The Go scheduler runs a goroutine that can take a step, a ready select
\* case is taken, and the timer of shutdownCtx fires.
SpecServeFair ==
    /\ SpecServe
    /\ WF_vars(SendErr)
    /\ WF_vars(SelectCtxDone \/ SelectErr)
    /\ WF_vars(ShutdownCompletes)
    /\ WF_vars(ShutdownTimerFires)
    /\ WF_vars(ShutdownTimesOut)

(***************************************************************************)
(* Schema translation (schema.go): schemaToMCPOptions                      *)
(***************************************************************************)
MaxTypes == 2         \* types one schema declares

\* openapi3 type names, and one outside the set schemaToMCPOptions knows.
KnownTypes == {"array", "object", "string", "number", "integer", "boolean"}
DeclaredTypes == KnownTypes \cup {"null"}

\* Schema.Type, a *openapi3.Types: nil, or the slice of the declared types in
\* the order of their declaration.
NilTypes == [nil |-> TRUE, slice |-> <<>>]
TypesOf(slice) == [nil |-> FALSE, slice |-> slice]
TypesValues ==
    {NilTypes} \cup {TypesOf(t) : t \in UNION {[1..n -> DeclaredTypes] : n \in 0..MaxTypes}}

\* A *openapi3.SchemaRef and the *openapi3.Schema it holds.
NilSchemaRef == [nil |-> TRUE]
NilSchema == [nil |-> TRUE]
SchemaRef(value) == [nil |-> FALSE, Value |-> value]
Schema(type, description, properties, required) ==
    [nil |-> FALSE, Type |-> type, Description |-> description,
     Properties |-> properties, Required |-> required]

NoProperties == [n \in {} |-> NilSchemaRef]

\* The schemas of an object's properties.
PropertySchemas ==
    {NilSchemaRef, SchemaRef(NilSchema)}
    \cup {SchemaRef(Schema(t, d, NoProperties, <<>>)) :
            t \in {NilTypes, TypesOf(<<>>), TypesOf(<<"string">>),
                   TypesOf(<<"integer", "string">>)},
            d \in {"", "a name"}}

PropertiesValues ==
    {NoProperties} \cup {[n \in {"name"} |-> ps] : ps \in PropertySchemas}

Schemas ==
    {NilSchemaRef, SchemaRef(NilSchema)}
    \cup {SchemaRef(Schema(t, d, ps, rq)) :
            t \in TypesValues, d \in {"", "a pet"},
            ps \in PropertiesValues, rq \in {<<>>, <<"name">>}}

\* Types.Includes looking at the first declared type only.
IncludesFirst(types, typ) ==
    /\ ~types.nil
    /\ Len(types.slice) > 0
    /\ types.slice[1] = typ

\* (*openapi3.Types).Includes: false on a nil receiver.
Includes(types, typ) ==
    /\ ~types.nil
    /\ \E i \in DOMAIN types.slice : types.slice[i] = typ

\* What a returned mcp.ToolOption puts under InputSchema.Properties[name]:
\* the "type", the "description", the flag mcp.Required() sets, the list
\* createObjectOption writes to the key "required" after it, and the
\* "properties". Items, enums and numeric or length constraints are copied
\* from the schema as they are and left out here.
Option(type, name, description, required, requiredFields, properties) ==
    [kind |-> "option", type |-> type, name |-> name,
     description |-> description, required |-> required,
     requiredFields |-> requiredFields, properties |-> properties]
Panic(what) == [kind |-> "panic", what |-> what]

\* baseOpts: mcp.Description(schema.Value.Description) and, if required,
\* mcp.Required().
BaseOption(type, schema, name, required) ==
    Option(type, name, <<schema.Value.Description>>, required, <<>>, <<>>)

\* One property's entry in createObjectOption's props map.
propMap(propSchema) ==
    IF propSchema.Value.nil THEN [type |-> "", description |-> ""]
    ELSE [type |-> IF propSchema.Value.Type.nil THEN ""
                   ELSE propSchema.Value.Type.slice[1],
          description |-> propSchema.Value.Description]

\* The loop of createObjectOption dereferences every property's SchemaRef
\* and indexes element 0 of every non-nil Type.
propMapPanics(propSchema) ==
    \/ propSchema.nil
    \/ /\ ~propSchema.Value.nil
       /\ ~propSchema.Value.Type.nil
       /\ Len(propSchema.Value.Type.slice) = 0

createObjectOption(schema, name, required) ==
    LET props == schema.Value.Properties
        base == BaseOption("object", schema, name, required)
    IN  IF \E n \in DOMAIN props : propMapPanics(props[n])
        THEN Panic("createObjectOption")
        ELSE [base EXCEPT
                 !.properties = [n \in DOMAIN props |-> propMap(props[n])],
                 !.requiredFields = schema.Value.Required]

schemaToMCPOptions(schema, name, required) ==
    IF schema.nil \/ schema.Value.nil \/ schema.Value.Type.nil
    THEN Option("object", name, <<"Request body">>, required, <<>>, <<>>)
    ELSE LET type == schema.Value.Type
         IN  CASE Includes(type, "array") -> BaseOption("array", schema, name, required)
               [] Includes(type, "object") -> createObjectOption(schema, name, required)
               [] Includes(type, "string") -> BaseOption("string", schema, name, required)
               [] Includes(type, "number") \/ Includes(type, "integer") ->
                      BaseOption("number", schema, name, required)
               [] Includes(type, "boolean") -> BaseOption("boolean", schema, name, required)
               [] OTHER ->
                      Option("object", name,
                             <<schema.Value.Description, "(unknown type)">> \o type.slice,
                             required, <<>>, <<>>)

MaxContent == 2       \* content types of one request body

\* The schemas the content types of a request body carry.
IdString == SchemaRef(Schema(TypesOf(<<"string">>), "id as text", NoProperties, <<>>))
IdInteger == SchemaRef(Schema(TypesOf(<<"integer">>), "id as number", NoProperties, <<>>))
ObjectWith(name, propSchema) ==
    SchemaRef(Schema(TypesOf(<<"object">>), "", [n \in {name} |-> propSchema], <<>>))
MediaSchemas ==
    {NilSchemaRef, SchemaRef(NilSchema),
     SchemaRef(Schema(TypesOf(<<"array">>), "", NoProperties, <<>>)),
     ObjectWith("id", IdString), ObjectWith("id", IdInteger),
     ObjectWith("name", IdString)}

\* RequestBody.Value.Content: the media types in the order the document
\* declares them; the Go map that holds them does not keep that order.
Contents ==
    UNION {[1..n -> MediaSchemas] : n \in 0..MaxContent}

NilRequestBody == [nil |-> TRUE]
RequestBody(content, required) ==
    [nil |-> FALSE, Value |-> [nil |-> FALSE, Content |-> content, Required |-> required]]
Operations ==
    {[RequestBody |-> NilRequestBody],
     [RequestBody |-> [nil |-> FALSE, Value |-> [nil |-> TRUE]]]}
    \cup {[RequestBody |-> RequestBody(c, r)] : c \in Contents, r \in BOOLEAN}

\* The properties a media type contributes to the merge.
MediaProperties(schema) ==
    IF schema.nil \/ schema.Value.nil THEN NoProperties
    ELSE schema.Value.Properties

\* The merge loop of getFirstBodySchema, the content visited in the order
\* given: every property of the visited schema is stored under its name.
mergeContent(content, order) ==
    LET F[i \in 0..Len(order)] ==
            IF i = 0 THEN NoProperties
            ELSE LET props == MediaProperties(content[order[i]])
                 IN  [n \in DOMAIN F[i - 1] \cup DOMAIN props |->
                         IF n \in DOMAIN props THEN props[n] ELSE F[i - 1][n]]
    IN  F[Len(order)]

\* The orders in which "for _, mediaType := range content" may visit a map.
ContentOrders(operation) ==
    IF operation.RequestBody.nil \/ operation.RequestBody.Value.nil
    THEN {<<>>}
    ELSE IterationOrders(DOMAIN operation.RequestBody.Value.Content)

BodySchema(schema, present, required) ==
    [kind |-> "bodySchema", schema |-> schema, present |-> present, required |-> required]

\* getFirstBodySchema; present is FALSE where it returns a nil schema for an
\* absent body.
getFirstBodySchema(operation, order) ==
    IF operation.RequestBody.nil \/ operation.RequestBody.Value.nil
    THEN BodySchema(NilSchemaRef, FALSE, FALSE)
    ELSE LET content == operation.RequestBody.Value.Content
             required == operation.RequestBody.Value.Required
         IN  IF Len(content) = 0 THEN BodySchema(NilSchemaRef, FALSE, FALSE)
             ELSE IF Len(content) = 1 THEN BodySchema(content[1], TRUE, required)
             ELSE BodySchema(SchemaRef([nil |-> FALSE,
                                        Type |-> TypesOf(<<"object">>),
                                        Description |-> "",
                                        Properties |-> mergeContent(content, order),
                                        Required |-> <<>>]),
                             TRUE, required)

InitSchema ==
    /\ call = NoCall
    /\ ret = NoRet
    /\ adjustments = NewAdjuster
    /\ doc = NoDoc
    /\ routeTools = <<>>
    /\ nParses = 0
    /\ cfg = NoCfg
    /\ timeout = 0
    /\ inv = IdleInv
    /\ Unused

CallSchemaToMCPOptions ==
    \E schema \in Schemas, name \in {"body", "test"}, required \in BOOLEAN :
        /\ call = NoCall
        /\ call' = [op |-> "schemaToMCPOptions", schema |-> schema,
                    name |-> name, required |-> required]
        /\ ret' = schemaToMCPOptions(schema, name, required)
        /\ UNCHANGED <<adjVars, parserVars, reqVars, concVars, srv, app>>

CallGetFirstBodySchema ==
    \E operation \in Operations :
      \E order \in ContentOrders(operation) :
        /\ call = NoCall
        /\ call' = [op |-> "getFirstBodySchema", operation |-> operation]
        /\ ret' = getFirstBodySchema(operation, order)
        /\ UNCHANGED <<adjVars, parserVars, reqVars, concVars, srv, app>>

NextSchema == CallSchemaToMCPOptions \/ CallGetFirstBodySchema

SpecSchema == InitSchema /\ [][NextSchema]_vars

(***************************************************************************)
(* Config builder (internal/tui): ExportRoutesToYamlFile                   *)
(***************************************************************************)
MaxItems == 2         \* route items of one export

\* models.RouteToolItem: the path and method of its Tool.RouteConfig, the
\* description typed in the editor, the removal mark.
RouteToolItem(path, method, newDescription, isRemoved) ==
    [Path |-> path, Method |-> method,
     NewDescription |-> newDescription, IsRemoved |-> isRemoved]
RouteToolItems ==
    {RouteToolItem(p, m, d, r) :
        p \in {PathUsers, PathUserId}, m \in {"GET", "POST"},
        d \in {"", "new 1"}, r \in BOOLEAN}
ItemLists == UNION {[1..n -> RouteToolItems] : n \in 0..MaxItems}

\* Where the export is written: a file that can be written, and one in a
\* directory that does not exist.
ExportFilenames == {"adjustments.yaml", "missing/adjustments.yaml"}

\* An export that keeps the removed items too.
KeptAlways(route) == TRUE

\* if !route.IsRemoved
Kept(route) == ~route.IsRemoved

\* if route.NewDescription != ""
Edited(route) == route.NewDescription # ""

\* descriptionsByPath: under each path the updates of its edited items, in
\* the order of the items.
descriptionsByPath(routes) ==
    LET edited == SelectSeq(routes, Edited)
    IN  [p \in {edited[i].Path : i \in DOMAIN edited} |->
            LET OfPath(route) == route.Path = p
                ofPath == SelectSeq(edited, OfPath)
            IN  [i \in DOMAIN ofPath |->
                    [Method |-> ofPath[i].Method,
                     NewDescription |-> ofPath[i].NewDescription]]]

\* methodsByPath: under each path the methods of its kept items, in the
\* order of the items.
methodsByPath(routes) ==
    LET kept == SelectSeq(routes, Kept)
    IN  [p \in {kept[i].Path : i \in DOMAIN kept} |->
            LET OfPath(route) == route.Path = p
                ofPath == SelectSeq(kept, OfPath)
            IN  [i \in DOMAIN ofPath |-> ofPath[i].Method]]

\* exportData: one RouteDescription and one RouteSelection per key of the
\* two maps, the keys in the order the map iterations yield them.
exportData(routes, descriptionOrder, routeOrder) ==
    Adjustments([i \in DOMAIN routeOrder |->
                    [Path |-> routeOrder[i],
                     Methods |-> methodsByPath(routes)[routeOrder[i]]]],
                [i \in DOMAIN descriptionOrder |->
                    [Path |-> descriptionOrder[i],
                     Updates |-> descriptionsByPath(routes)[descriptionOrder[i]]]])

\* yaml.Marshal of the MCPAdjustments: the YAML document, a mapping with the
\* keys of the struct tags. (Whether an empty list is written as [] or left
\* out is not modelled: the document holds the list either way.)
yamlMarshal(data) ==
    [descriptions |->
        [i \in DOMAIN data.Descriptions |->
            [path |-> data.Descriptions[i].Path,
             updates |-> [j \in DOMAIN data.Descriptions[i].Updates |->
                             [method |-> data.Descriptions[i].Updates[j].Method,
                              new_description |->
                                  data.Descriptions[i].Updates[j].NewDescription]]]],
     routes |->
        [i \in DOMAIN data.Routes |->
            [path |-> data.Routes[i].Path, methods |-> data.Routes[i].Methods]]]

NoExport == [exists |-> FALSE]
Exported(document) == [exists |-> TRUE, document |-> document]

\* ExportRoutesToYamlFile: [the error returned, the file afterwards].
ExportRoutesToYamlFile(routes, descriptionOrder, routeOrder, filename) ==
    IF filename = "missing/adjustments.yaml"
    THEN [kind |-> "export", err |-> "no such file or directory", file |-> NoExport]
    ELSE [kind |-> "export", err |-> "",
          file |-> Exported(yamlMarshal(exportData(routes, descriptionOrder, routeOrder)))]

InitExport ==
    /\ call = NoCall
    /\ ret = NoRet
    /\ adjustments = NewAdjuster
    /\ doc = NoDoc
    /\ routeTools = <<>>
    /\ nParses = 0
    /\ cfg = NoCfg
    /\ timeout = 0
    /\ inv = IdleInv
    /\ Unused

CallExportRoutesToYamlFile ==
    \E routes \in ItemLists, filename \in ExportFilenames :
      \E descriptionOrder \in IterationOrders(DOMAIN descriptionsByPath(routes)),
         routeOrder \in IterationOrders(DOMAIN methodsByPath(routes)) :
        /\ call = NoCall
        /\ call' = [op |-> "ExportRoutesToYamlFile", routes |-> routes, filename |-> filename]
        /\ ret' = ExportRoutesToYamlFile(routes, descriptionOrder, routeOrder, filename)
        /\ UNCHANGED <<adjVars, parserVars, reqVars, concVars, srv, app>>

NextExport == CallExportRoutesToYamlFile

SpecExport == InitExport /\ [][NextExport]_vars

\* yaml.Unmarshal into a MCPAdjustments: each key of the document goes to
\* the field whose struct tag names it.
yamlUnmarshal(document) ==
    Adjustments([i \in DOMAIN document.routes |->
                    [Path |-> document.routes[i].path,
                     Methods |-> document.routes[i].methods]],
                [i \in DOMAIN document.descriptions |->
                    [Path |-> document.descriptions[i].path,
                     Updates |-> [j \in DOMAIN document.descriptions[i].updates |->
                                    [Method |-> document.descriptions[i].updates[j].method,
                                     NewDescription |->
                                         document.descriptions[i].updates[j].new_description]]]])

\* The server starts with the file the builder wrote: Adjuster.Load reads it.
LoadExported ==
    /\ call.op = "ExportRoutesToYamlFile"
    /\ ret.kind = "export"
    /\ ret.err = ""
    /\ LET loaded == Load(adjustments, call.filename, YamlFile(yamlUnmarshal(ret.file.document)))
       IN  /\ adjustments' = loaded.adjustments
           /\ call' = [op |-> "Load", routes |-> call.routes, filePath |-> call.filename]
           /\ ret' = IF loaded.err = "" THEN OkRet ELSE ErrRet(loaded.err)
    /\ UNCHANGED <<parserVars, reqVars, concVars, srv, app>>

NextRoundTrip == CallExportRoutesToYamlFile \/ LoadExported

SpecRoundTrip == InitExport /\ [][NextRoundTrip]_vars

(***************************************************************************)
(* OAuth (internal/auth, internal/server/handler): the HTTP handler stack  *)
(***************************************************************************)
\* A header or query value is the sequence of its tokens; <<>> is absent.
AuthHeaderPrefix == <<"Bearer ">>
AuthorizationValues ==
    {<<>>, <<"Bearer ">>, <<"Bearer ", "good">>, <<"Bearer ", "bad">>,
     <<"Basic ", "good">>, <<"bearer ", "good">>}
TokenParams == {<<>>, <<"good">>, <<"bad">>}
OAuthPaths == {"/oauth/token", "/.well-known/oauth-protected-resource"}
RequestPaths == {"/", "/sse", "/mcp"} \cup OAuthPaths

HTTPRequest(method, path, authorization, token) ==
    [Method |-> method, Path |-> path, Authorization |-> authorization, token |-> token]
HTTPRequests ==
    {HTTPRequest(m, p, a, t) :
        m \in {"GET", "POST", "OPTIONS"}, p \in RequestPaths,
        a \in AuthorizationValues, t \in TokenParams}

\* An extractToken that reads the query parameter before the header.
extractTokenQueryFirst(r) ==
    IF r.token # <<>> THEN r.token
    ELSE IF HasPrefix(r.Authorization, AuthHeaderPrefix)
    THEN SubSeq(r.Authorization, Len(AuthHeaderPrefix) + 1, Len(r.Authorization))
    ELSE <<>>

\* middleware.extractToken: the Authorization header without its "Bearer "
\* prefix when it has that prefix, else the "token" query parameter.
extractToken(r) ==
    IF HasPrefix(r.Authorization, AuthHeaderPrefix)
    THEN SubSeq(r.Authorization, Len(AuthHeaderPrefix) + 1, Len(r.Authorization))
    ELSE r.token

\* provider.ValidateAccessToken: the identity provider knows the token and
\* can be reached.
ValidateAccessToken(token, reachable) ==
    IF token = <<"good">> /\ reachable
    THEN [err |-> "", user |-> "octocat"]
    ELSE [err |-> "invalid token", user |-> ""]

\* What a request is answered with: the status, the names of the response
\* headers set, the handler that served it and the AuthInfo its context held.
HTTPResponse(status, headers, servedBy, authInfo) ==
    [kind |-> "response", status |-> status, headers |-> headers,
     servedBy |-> servedBy, authInfo |-> authInfo]
NoAuthInfo == [set |-> FALSE, UserID |-> "", Token |-> <<>>]

\* middleware.writeError
writeError(status, cors) ==
    HTTPResponse(status,
                 cors \cup {"Content-Type"}
                      \cup (IF status = 401 THEN {"WWW-Authenticate"} ELSE {}),
                 "middleware", NoAuthInfo)

\* middleware.Authenticate around the MCP handler.
Authenticate(r, reachable, cors) ==
    LET token == extractToken(r)
        userInfo == ValidateAccessToken(token, reachable)
    IN  IF token = <<>> THEN writeError(401, cors)
        ELSE IF userInfo.err # "" THEN writeError(401, cors)
        ELSE HTTPResponse(200, cors, "mcp",
                          [set |-> TRUE, UserID |-> userInfo.user, Token |-> token])

\* The response headers middleware.CORSWithOrigins sets on every request
\* (no allowed origin is configured).
CORSHeaders ==
    {"Access-Control-Allow-Methods", "Access-Control-Allow-Headers",
     "Access-Control-Expose-Headers"}

\* Handler.CreateHTTPHandler's handler serving one request: without an auth
\* service the mux hands every path to the MCP handler; with one, CORS
\* answers OPTIONS itself, the mux serves the OAuth routes, and every other
\* path goes through Authenticate.
ServeHTTP(oauth, r, reachable) ==
    IF ~oauth THEN HTTPResponse(200, {}, "mcp", NoAuthInfo)
    ELSE IF r.Method = "OPTIONS" THEN HTTPResponse(200, CORSHeaders, "cors", NoAuthInfo)
    ELSE IF r.Path \in OAuthPaths THEN HTTPResponse(200, CORSHeaders, "oauth", NoAuthInfo)
    ELSE Authenticate(r, reachable, CORSHeaders)

InitAuth ==
    /\ call = NoCall
    /\ ret = NoRet
    /\ adjustments = NewAdjuster
    /\ doc = NoDoc
    /\ routeTools = <<>>
    /\ nParses = 0
    /\ cfg = NoCfg
    /\ timeout = 0
    /\ inv = IdleInv
    /\ Unused

\* One request served by the handler stack.
CallServeHTTP ==
    \E oauth \in BOOLEAN, r \in HTTPRequests, reachable \in BOOLEAN :
        /\ call = NoCall
        /\ call' = [op |-> "ServeHTTP", oauth |-> oauth, r |-> r, reachable |-> reachable]
        /\ ret' = ServeHTTP(oauth, r, reachable)
        /\ UNCHANGED <<adjVars, parserVars, reqVars, concVars, srv, app>>

NextAuth == CallServeHTTP

SpecAuth == InitAuth /\ [][NextAuth]_vars

(***************************************************************************)
(* Tool handler (internal/server/tool): Handler.CreateHandler              *)
(***************************************************************************)
\* What the handler returns: a *mcp.CallToolResult (or nil) and a Go error.
NilToolResult == [isNil |-> TRUE, IsError |-> FALSE, text |-> <<>>]
NewToolResultError(text) == [isNil |-> FALSE, IsError |-> TRUE, text |-> text]
NewToolResultText(text) == [isNil |-> FALSE, IsError |-> FALSE, text |-> text]
ToolReturn(result, err, invoked) ==
    [kind |-> "toolReturn", result |-> result, err |-> err, invoked |-> invoked]
ToolPending == [kind |-> "pending", invoked |-> 1]

\* A test of the status that lets 400 through.
AboveBadRequest(status) == status > 400

\* resp.StatusCode >= http.StatusBadRequest
IsErrorStatus(status) == status >= 400

\* The handler after the executor has returned.
toolResult(executed) ==
    IF executed.kind = "error"
    THEN ToolReturn(NilToolResult, <<"failed to execute request for tool", executed.err>>, 1)
    ELSE IF IsErrorStatus(executed.resp.StatusCode)
    THEN ToolReturn(NewToolResultError(<<"HTTP Error ", ToString(executed.resp.StatusCode), ": ">>
                                       \o executed.resp.Body),
                    <<>>, 1)
    ELSE ToolReturn(NewToolResultText(executed.resp.Body), <<>>, 1)

InitTool == InitReq

\* A tool call arrives: with auth enabled and no *AuthInfo in the context the
\* handler returns the Unauthorized result; otherwise it calls the executor
\* with the call's context and arguments.
ToolCall ==
    /\ call = NoCall
    /\ inv.pc = "idle"
    /\ \E authEnabled \in BOOLEAN, hasAuthInfo \in BOOLEAN,
          route \in ExecRoutes, args \in ExecArgs :
         \E order \in HeaderOrders(cfg, route) :
            /\ call' = [op |-> "CallTool", authEnabled |-> authEnabled,
                        hasAuthInfo |-> hasAuthInfo, route |-> route, args |-> args]
            /\ IF authEnabled /\ ~hasAuthInfo
               THEN /\ ret' = ToolReturn(NewToolResultError(
                                 <<"Unauthorized: No active user info in context">>), <<>>, 0)
                    /\ UNCHANGED <<inv, cfg>>
               ELSE /\ ret' = ToolPending
                    /\ inv' = Started(cfg, timeout, route, args, "caller", order)
                    /\ cfg' = [cfg EXCEPT !.Headers = inv'.build.shared.service]
    /\ UNCHANGED <<timeout, adjVars, parserVars, concVars, srv, app>>

\* The executor has returned to the handler, which returns its result.
ToolReturns ==
    /\ call.op = "CallTool"
    /\ ret = ToolPending
    /\ inv.pc = "done"
    /\ ret' = [toolResult(inv.result) EXCEPT !.invoked = ret.invoked]
    /\ UNCHANGED <<inv, call, cfg, timeout, adjVars, parserVars, concVars, srv, app>>

NextTool ==
    \/ ToolCall \/ ToolReturns
    \/ Deliver \/ DoResponds \/ DoRedirects \/ DoFails \/ DoAborts
    \/ ReadCompletes \/ ReadFails \/ ReadAborts \/ TimerFires \/ CancelCtx

SpecTool == InitTool /\ [][NextTool]_vars

(***************************************************************************)
(* Tool names of one document (parser.generateTool, Server.setupTools)     *)
(***************************************************************************)
\* Paths an OpenAPI document can declare side by side: a templated path, the
\* same path with a literal segment, and one that differs by case.
PathUsersLiteralId == <<"/", "users", "/", "id">>
NamedPaths == {UsersId, PathUsersLiteralId, PathUserId, PathUsers}
NamedDocs ==
    {ops \in SUBSET [path : NamedPaths, method : {"GET", "POST"}] : Cardinality(ops) \in 1..2}

InitNamed ==
    /\ srv = NewSrv("stdio")
    /\ app = NoApp
    /\ adjustments = NewAdjuster
    /\ executors = NoExecutors
    /\ invs = NoInvs
    /\ call = NoCall
    /\ ret = NoRet
    /\ doc = NoDoc
    /\ routeTools = <<>>
    /\ nParses = 0
    /\ cfg = NoCfg
    /\ timeout = 0
    /\ inv = IdleInv

\* setupTools on a document of NamedDocs: processOperations extracts its
\* routes, and the loop over GetRouteTools starts.
SetupNamedTools ==
    /\ srv.pc = "new"
    /\ \E ops \in NamedDocs :
         \E order \in PathOrdersOf(ops) :
            /\ doc' = [isNil |-> FALSE, ops |-> ops]
            /\ routeTools' = processOperations(adjustments, ops, order)
    /\ call' = [op |-> "Init"]
    /\ ret' = OkRet
    /\ nParses' = nParses + 1
    /\ srv' = [srv EXCEPT !.pc = afterInit(""), !.init = "ok", !.next = 1]
    /\ UNCHANGED <<adjustments, reqVars, concVars, app>>

NextNamed == SetupNamedTools \/ AddTool

SpecNamed == InitNamed /\ [][NextNamed]_vars

(***************************************************************************)
(* The arguments a tool declares and the request built from them           *)
(***************************************************************************)
\* extractPathParams: the segments of the path of the form {name}.
extractPathParams(path) ==
    {path[i + 1] : i \in {j \in 1..(Len(path) - 2) :
                            /\ path[j] = "{" /\ path[j + 2] = "}"
                            /\ (j = 1 \/ path[j - 1] = "/")
                            /\ (j + 2 = Len(path) \/ path[j + 3] = "/")}}

\* The arguments generateTool declares for a route: its path parameters, its
\* query parameters, its form fields, "file" for an upload, and "body" for a
\* POST, PUT or PATCH whose operation has a body schema.
DeclaredArgs(route) ==
    extractPathParams(route.Path)
    \cup Range(route.QueryParams)
    \cup Range(route.FormFields)
    \cup (IF route.FileUpload # "" THEN {"file"} ELSE {})
    \cup (IF route.Method \in {"POST", "PUT", "PATCH"} THEN {"body"} ELSE {})

\* Routes as createRouteConfig makes them from operations that do or do not
\* declare the query parameter q and that have a JSON body schema.
DeclaredRoutes ==
    {[isNil |-> FALSE, Path |-> path, Method |-> method, Headers |-> ParserHeaders,
      FormFields |-> <<>>, FileUpload |-> "", QueryParams |-> queryParams] :
        path \in {UsersId, Users}, method \in Range(SupportedMethods),
        queryParams \in {<<>>, <<"q">>}}

\* The arguments a caller supplies to such a tool: declared ones only.
SuppliedArgs(route) ==
    {args \in AllArgs : ~args.isNil /\ DOMAIN args.m \subseteq DeclaredArgs(route)}

\* One call of the executor's BuildRequest with arguments the tool declares.
CallBuildDeclared ==
    \E route \in DeclaredRoutes :
      \E args \in SuppliedArgs(route), order \in HeaderOrders(cfg, route) :
        /\ call = NoCall
        /\ call' = [op |-> "BuildRequest", route |-> route, args |-> args]
        /\ ret' = BuildRequest(cfg, route, args, "caller", order)
        /\ UNCHANGED <<adjVars, parserVars, reqVars, concVars, srv, app>>

NextDeclared == CallBuildDeclared

SpecDeclared == InitBuild /\ [][NextDeclared]_vars

(***************************************************************************)
(* Config builder TUI (internal/tui): AppModel and its three pages         *)
(***************************************************************************)
\* The route tools the builder is started with, and the adjusters it can be
\* started with: none loaded, or one that selects GET /users and overrides
\* its description.
TUIRouteTools ==
    <<[Path |-> PathUsers, Method |-> "GET", Description |-> "list users"],
      [Path |-> PathUserId, Method |-> "GET", Description |-> "get user"]>>
TUIAdjusters ==
    {NewAdjuster,
     Adjustments(<<[Path |-> PathUsers, Methods |-> <<"GET">>]>>,
                 <<[Path |-> PathUsers,
                    Updates |-> <<[Method |-> "GET", NewDescription |-> "new 1"]>>]>>)}

\* The keys the user can press, what the textarea of the editor can hold
\* after a key, and what the text input of the export view can hold.
Keys == {"esc", "enter", "e", "f", "x", "down", "up", "ctrl+s", "ctrl+c", "q"}
EditorTexts == {"", "list users", "new 1"}
ExportInputs == {<<>>, <<"adjustments">>, <<"missing/adjustments", ".yaml">>}

\* NewListItemModel: one item per route tool, with the adjuster's description
\* and selection.
ListItems(rts, adjuster) ==
    [i \in DOMAIN rts |->
        [Path |-> rts[i].Path, Method |-> rts[i].Method, Description |-> rts[i].Description,
         NewDescription |-> GetDescription(adjuster, rts[i].Path, rts[i].Method, ""),
         IsRemoved |-> ~ExistsInMCP(adjuster, rts[i].Path, rts[i].Method)]]

\* RouteToolItem.Description
Description(i) ==
    IF i.IsRemoved THEN "[Removed]"
    ELSE IF i.NewDescription # "" THEN i.NewDescription
    ELSE i.Description

\* RouteToolItem.UpdatedDescription, RouteToolItem.ToggleRemoved
UpdatedDescription(i, newDescription) == [i EXCEPT !.NewDescription = newDescription]
ToggleRemoved(i) == [i EXCEPT !.IsRemoved = ~i.IsRemoved]

\* NewExportView
NewExportView(routes) ==
    [routeTools |-> routes, value |-> <<>>, exportStatus |-> "", Success |-> FALSE,
     file |-> NoExport]

\* NewAppModel. pending are the messages of the commands that have been
\* returned and not yet delivered (a message that is pending already is not
\* counted twice).
NewAppModel(rts, adjuster) ==
    [pc |-> "running", page |-> "main",
     items |-> ListItems(rts, adjuster), cursor |-> 1,
     editing |-> FALSE, editIndex |-> 0, text |-> "",
     exportView |-> NewExportView(<<>>),
     pending |-> {}]

\* if newDescription != item.Tool.RouteConfig.Description
DescriptionChanged(newDescription, item) == newDescription # item.Description

\* handleEditModeUpdate: ctrl+s ends the edit and stores the text of the
\* editor; ctrl+c quits; any other key goes to the textarea, which then
\* holds typed.
handleEditModeUpdate(m, k, typed) ==
    IF k = "ctrl+s"
    THEN LET item == m.items[m.cursor]
         IN  [m EXCEPT !.editing = FALSE,
                       !.items = IF DescriptionChanged(m.text, item)
                                 THEN [m.items EXCEPT ![m.editIndex] =
                                          UpdatedDescription(item, m.text)]
                                 ELSE m.items]
    ELSE IF k = "ctrl+c" THEN [m EXCEPT !.pending = @ \cup {"QuitMsg"}]
    ELSE [m EXCEPT !.text = typed]

\* list.Model.Update with the item delegate: the cursor keys, x toggles the
\* removal mark of the selected item, q quits.
listUpdate(m, k) ==
    IF k = "down" THEN [m EXCEPT !.cursor = IF @ < Len(m.items) THEN @ + 1 ELSE @]
    ELSE IF k = "up" THEN [m EXCEPT !.cursor = IF @ > 1 THEN @ - 1 ELSE @]
    ELSE IF k = "x" THEN [m EXCEPT !.items[m.cursor] = ToggleRemoved(@)]
    ELSE IF k = "q" THEN [m EXCEPT !.pending = @ \cup {"QuitMsg"}]
    ELSE m

\* handleListModeUpdate
handleListModeUpdate(m, k) ==
    IF k = "ctrl+c" THEN [m EXCEPT !.pending = @ \cup {"QuitMsg"}]
    ELSE IF k = "e"
    THEN IF m.items[m.cursor].IsRemoved THEN m
         ELSE [m EXCEPT !.editing = TRUE, !.editIndex = m.cursor,
                        !.text = Description(m.items[m.cursor])]
    ELSE IF k = "f" THEN [m EXCEPT !.pending = @ \cup {"DoneMsg"}]
    ELSE listUpdate(m, k)

\* ListItemModel.Update
ListItemModelUpdate(m, k, typed) ==
    IF m.editing THEN handleEditModeUpdate(m, k, typed) ELSE handleListModeUpdate(m, k)

\* MainPageModel.Update
MainPageModelUpdate(m, k) ==
    IF k \in {"ctrl+c", "q"} THEN [m EXCEPT !.pending = @ \cup {"QuitMsg"}]
    ELSE IF k = "enter" THEN [m EXCEPT !.pending = @ \cup {"OpenListItemMsg"}]
    ELSE m

\* strings.HasSuffix on the tokens of a file name
HasSuffix(filename, suffix) == Len(filename) > 0 /\ filename[Len(filename)] = suffix

\* The file name the export view passes on.
ExportFilename(value) ==
    IF ~HasSuffix(value, ".yaml") /\ ~HasSuffix(value, ".yml")
    THEN Append(value, ".yaml")
    ELSE value

\* ExportView.Update: ctrl+c quits, esc asks for BackToMainMsg, enter
\* exports under the name typed, and any other key goes to the text input,
\* which then holds typed.
ExportViewUpdate(m, k, typed, descriptionOrder, routeOrder) ==
    IF k = "ctrl+c" THEN [m EXCEPT !.pending = @ \cup {"QuitMsg"}]
    ELSE IF k = "esc" THEN [m EXCEPT !.pending = @ \cup {"BackToMainMsg"}]
    ELSE IF k = "enter"
    THEN IF m.exportView.value = <<>>
         THEN [m EXCEPT !.exportView.exportStatus = "Please enter a filename"]
         ELSE LET filename == ExportFilename(m.exportView.value)
                  exported == ExportRoutesToYamlFile(
                                 m.exportView.routeTools, descriptionOrder, routeOrder,
                                 IF filename[1] = "missing/adjustments"
                                 THEN "missing/adjustments.yaml" ELSE "adjustments.yaml")
              IN  IF exported.err # ""
                  THEN [m EXCEPT !.exportView.exportStatus = "Error exporting"]
                  ELSE [m EXCEPT !.exportView.exportStatus = "Successfully exported",
                                 !.exportView.Success = TRUE,
                                 !.exportView.file = exported.file,
                                 !.pending = @ \cup {"QuitMsg"}]
    ELSE [m EXCEPT !.exportView.value = typed]

\* AppModel.Update on a key: esc on the list page goes to the main page, any
\* other key goes to the active page.
AppModelUpdateKey(m, k, text, input, descriptionOrder, routeOrder) ==
    IF k = "esc" /\ m.page = "list" THEN [m EXCEPT !.page = "main"]
    ELSE IF m.page = "main" THEN MainPageModelUpdate(m, k)
    ELSE IF m.page = "list" THEN ListItemModelUpdate(m, k, text)
    ELSE ExportViewUpdate(m, k, input, descriptionOrder, routeOrder)

\* AppModel.Update on the message of a command.
AppModelUpdateMsg(m, msg) ==
    IF msg = "OpenListItemMsg" THEN [m EXCEPT !.page = "list"]
    ELSE IF msg = "DoneMsg"
    THEN [m EXCEPT !.page = "export", !.exportView = NewExportView(m.items)]
    ELSE IF msg = "BackToMainMsg" THEN [m EXCEPT !.page = "list"]
    ELSE m

\* The messages that can be on their way when the next key is pressed.
MaxPending == 1

tuiOthers == <<adjVars, parserVars, call, ret, reqVars, concVars, srv>>

InitTUI ==
    /\ app \in {NewAppModel(TUIRouteTools, adjuster) : adjuster \in TUIAdjusters}
    /\ call = NoCall
    /\ ret = NoRet
    /\ adjustments = NewAdjuster
    /\ doc = NoDoc
    /\ routeTools = <<>>
    /\ nParses = 0
    /\ cfg = NoCfg
    /\ timeout = 0
    /\ inv = IdleInv
    /\ executors = NoExecutors
    /\ invs = NoInvs
    /\ srv = NoSrv

\* The user presses a key and the program passes it to AppModel.Update.
KeyPress ==
    /\ app.pc = "running"
    /\ Cardinality(app.pending) < MaxPending
    /\ \E k \in Keys :
         \E text \in IF app.page = "list" /\ app.editing THEN EditorTexts ELSE {app.text},
            input \in IF app.page = "export" THEN ExportInputs ELSE {app.exportView.value},
            descriptionOrder \in IterationOrders(DOMAIN descriptionsByPath(app.exportView.routeTools)),
            routeOrder \in IterationOrders(DOMAIN methodsByPath(app.exportView.routeTools)) :
           app' = AppModelUpdateKey(app, k, text, input, descriptionOrder, routeOrder)
    /\ UNCHANGED tuiOthers

\* The message of a command reaches AppModel.Update.
DeliverMsg ==
    /\ app.pc = "running"
    /\ \E msg \in app.pending \ {"QuitMsg"} :
         app' = [AppModelUpdateMsg(app, msg) EXCEPT !.pending = app.pending \ {msg}]
    /\ UNCHANGED tuiOthers

\* tea.Quit reaches the program, which leaves its loop.
Quit ==
    /\ app.pc = "running"
    /\ "QuitMsg" \in app.pending
    /\ app' = [app EXCEPT !.pc = "quit", !.pending = @ \ {"QuitMsg"}]
    /\ UNCHANGED tuiOthers

NextTUI == KeyPress \/ DeliverMsg \/ Quit

SpecTUI == InitTUI /\ [][NextTUI]_vars

(***************************************************************************)
(* C2, C3: the Adjuster's lookups                                          *)
(***************************************************************************)
\* Some entry of Routes has exactly this path and lists exactly this method.
Selected(adj, route, method) ==
    \E i \in DOMAIN adj.Routes :
        /\ adj.Routes[i].Path = route
        /\ method \in Range(adj.Routes[i].Methods)

\* C2: ExistsInMCP(path, method) is true when adjustments are nil or Routes is
\* empty; otherwise it is true if and only if an entry for exactly that path
\* exists and lists exactly that method.
C2_ExistsIffSelected ==
    call.op = "ExistsInMCP" =>
        ret.v = IF adjustments.isNil \/ Len(adjustments.Routes) = 0 THEN TRUE
                ELSE Selected(adjustments, call.route, call.method)

\* Some Descriptions entry matches (path, method) exactly, with this override.
Overridden(adj, route, method, text) ==
    \E i \in DOMAIN adj.Descriptions :
        /\ adj.Descriptions[i].Path = route
        /\ \E j \in DOMAIN adj.Descriptions[i].Updates :
               /\ adj.Descriptions[i].Updates[j].Method = method
               /\ adj.Descriptions[i].Updates[j].NewDescription = text

HasOverride(adj, route, method) ==
    \E text \in Overrides : Overridden(adj, route, method, text)

\* C3: GetDescription returns the override if a Descriptions entry matches
\* (path, method) exactly, and otherwise returns the original unchanged.
C3_OverrideOrOriginal ==
    call.op = "GetDescription" =>
        IF (~adjustments.isNil) /\ HasOverride(adjustments, call.route, call.method)
        THEN Overridden(adjustments, call.route, call.method, ret.v)
        ELSE ret.v = call.original

(***************************************************************************)
(* C4, C5, C6: route extraction and the classification of bad input        *)
(***************************************************************************)
FiveMethods == {"GET", "POST", "PUT", "DELETE", "PATCH"}

\* The step is a ParseReader or Init call that returned no error.
ParseSucceeded ==
    /\ nParses' = nParses + 1
    /\ ret'.kind = "ok"

\* The step is a ParseReader or Init call that returned an error.
ParseFailed ==
    /\ nParses' = nParses + 1
    /\ ret'.kind = "error"

\* The route tools the step appended.
Appended == SubSeq(routeTools', Len(routeTools) + 1, Len(routeTools'))

Identity(rt) == [path |-> rt.RouteConfig.Path, method |-> rt.RouteConfig.Method]

\* The operations of document d at one of the five supported methods.
FiveMethodOps(d) == {o \in d.ops : o.method \in FiveMethods}

NoAdjustments(adj) == adj.isNil \/ (adj.Routes = <<>> /\ adj.Descriptions = <<>>)

\* C4: with no adjustments configured, one successful parse (ParseReader or
\* Init) of a spec with N operations (paths x the five supported methods)
\* yields exactly N route tools, one per operation, each with the operation's
\* verbatim path and method; on a parser that held no route they are the
\* whole list.
C4_OneRoutePerOperation ==
    [][(ParseSucceeded /\ NoAdjustments(adjustments'))
        => /\ Len(Appended) = Cardinality(FiveMethodOps(doc'))
           /\ \A o \in FiveMethodOps(doc') :
                Cardinality({i \in DOMAIN Appended : Identity(Appended[i]) = o}) = 1
           /\ routeTools = <<>> => routeTools' = Appended
      ]_vars

C4_Witness ==
    /\ nParses = 1
    /\ ret = OkRet
    /\ adjustments = NewAdjuster
    /\ Len(routeTools) = 2
    /\ \E o \in doc.ops : o.path = PathUserId

\* C5: with a route selection configured, the routes a successful parse
\* extracts are exactly the existing GET/POST/PUT/DELETE/PATCH operations for
\* which ExistsInMCP is true, each once; the others get no route tool at all.
C5_ExactlyTheSelected ==
    [][(ParseSucceeded /\ ~adjustments'.isNil /\ adjustments'.Routes # <<>>)
        => /\ {Identity(Appended[i]) : i \in DOMAIN Appended}
                = {o \in FiveMethodOps(doc') : ExistsInMCP(adjustments', o.path, o.method)}
           /\ \A i, j \in DOMAIN Appended :
                Identity(Appended[i]) = Identity(Appended[j]) => i = j
      ]_vars

C5_Witness ==
    /\ nParses = 1
    /\ ret = OkRet
    /\ adjustments = SelectGetUsers
    /\ doc.ops = {[path |-> PathUsers, method |-> "GET"], [path |-> PathUsers, method |-> "POST"]}
    /\ Len(routeTools) = 1
    /\ Identity(routeTools[1]) = [path |-> PathUsers, method |-> "GET"]

IsV3(v) == v.t = "string" /\ HasPrefix(v.s, <<"3", ".">>)

\* A failed parse adds no route and leaves the document as it was.
NoRoutesOnError == ParseFailed => (routeTools' = routeTools /\ doc' = doc)

\* The step is a ParseReader or Init call that got as far as the spec's bytes.
SpecIngested ==
    /\ nParses' = nParses + 1
    /\ call'.data.readable
    /\ ret' # ErrRet("failed to load adjustments file")

Placeholders(path) ==
    {path[i + 1] : i \in {j \in 1..(Len(path) - 2) : path[j] = "{" /\ path[j + 2] = "}"}}

BuiltGET ==
    /\ call.op = "BuildRequest"
    /\ ~call.route.isNil
    /\ call.route.Method = "GET"
    /\ ret.err = ""

\* C1: for a GET route the query string of the built URL holds exactly the
\* args that remain after path substitution, and never "body" or "file": an
\* arg whose key filled a placeholder is no query parameter.
C1_QueryHoldsRemainingArgs ==
    BuiltGET =>
        LET given == IF call.args.isNil THEN {} ELSE DOMAIN call.args.m
        IN  DOMAIN ret.request.HttpRequest.URL.query
                = given \ ({"body", "file"} \cup Placeholders(call.route.Path))

\* The http.Request before and after the ApplyAuth of the last call.
AuthBefore == IF call.op = "ApplyAuth" THEN call.req ELSE ret.attempted.before
AuthAfter == IF call.op = "ApplyAuth" THEN ret.req ELSE ret.attempted.after
AuthCalled ==
    \/ call.op = "ApplyAuth"
    \/ (call.op = "BuildRequest" /\ ret.attempted.made)
AuthError ==
    IF call.op = "ApplyAuth" THEN ret.err
    ELSE IF ret.err = "failed to apply authentication" THEN "unsupported auth type"
    ELSE ""

WithHeader(req, name, value) ==
    [req EXCEPT !.Header = [k \in DOMAIN req.Header \cup {name} |->
                               IF k = name THEN value ELSE req.Header[k]]]

\* C7: ApplyAuth dispatches on a closed tag set: none leaves the request as
\* it is; basic sets the basic credentials of the config; bearer and oauth2
\* set Authorization: Bearer <token>; api_key sets the configured header
\* (X-API-Key by default) to the key; any other type returns the unsupported
\* auth type error and leaves the request as it is.
C7_AuthDispatch ==
    AuthCalled =>
        LET t == cfg.AuthType
            c == cfg.AuthConfig
            Get(k) == IF k \in DOMAIN c THEN c[k] ELSE ""
        IN  /\ t = "none" => (AuthError = "" /\ AuthAfter = AuthBefore)
            /\ t = "basic" =>
                 /\ AuthError = ""
                 /\ AuthAfter = WithHeader(AuthBefore, "Authorization",
                        <<"Basic ", [base64 |-> <<Get("username"), ":", Get("password")>>]>>)
            /\ t \in {"bearer", "oauth2"} =>
                 /\ AuthError = ""
                 /\ AuthAfter = WithHeader(AuthBefore, "Authorization", <<"Bearer ", Get("token")>>)
            /\ t = "api_key" =>
                 /\ AuthError = ""
                 /\ AuthAfter = WithHeader(AuthBefore,
                        IF "header" \in DOMAIN c THEN c["header"] ELSE "X-API-Key",
                        <<Get("key")>>)
            /\ t \notin {"none", "basic", "bearer", "oauth2", "api_key"} =>
                 /\ AuthError = "unsupported auth type"
                 /\ AuthAfter = AuthBefore

\* BuildRequest reached ApplyAuth with an unsupported type, on a request that
\* already carries headers.
C7_Witness ==
    /\ call.op = "BuildRequest"
    /\ cfg.AuthType = "invalid"
    /\ ret.attempted.made
    /\ ret.err = "failed to apply authentication"
    /\ "X-Test-Header" \in DOMAIN ret.attempted.after.Header

(***************************************************************************)
(* C8, C9, C10: the route executor                                         *)
(***************************************************************************)
\* The invocation reached ApplyAuth and ApplyAuth failed.
AuthFails ==
    /\ inv.pc # "idle"
    /\ inv.build.attempted.made
    /\ ApplyAuth(cfg.AuthType, cfg.AuthConfig, inv.build.attempted.before).err # ""

\* C8: if applying authentication fails, BuildRequest returns an error and no
\* request, and the executor returns that error without any HTTP call: no
\* request is handed to the client and the upstream receives none.
C8_AuthFailureAborts ==
    AuthFails =>
        /\ inv.build.err = "failed to apply authentication"
        /\ inv.build.request.isNil
        /\ inv.pc = "done"
        /\ inv.result = ErrorResult("failed to apply authentication")
        /\ inv.calls = 0
        /\ inv.received = 0

C8_Witness ==
    /\ AuthFails
    /\ inv.pc = "done"
    /\ ~inv.route.isNil
    /\ inv.route.Method = "POST"

BuildErrors ==
    {"route config is nil", "failed to create request body",
     "failed to create HTTP request", "failed to apply authentication"}
TransportErrors == {"request failed", "failed to read response body"}

\* C9: the executor returns exactly one of (Response, no error) and
\* (no Response, error); a Response carries the upstream's status code, whole
\* body and headers, whatever the status; an error is a request-build
\* failure (no HTTP call made) or a transport failure.
C9_ResponseOrError ==
    inv.pc = "done" =>
        /\ inv.result.kind \in {"response", "error"}
        /\ inv.result.kind = "response" =>
             /\ inv.result.err = ""
             /\ ~inv.result.resp.isNil
             /\ ~inv.upstream.isNil
             /\ inv.result.resp.StatusCode = inv.upstream.status
             /\ inv.result.resp.Body = inv.upstream.body
             /\ inv.result.resp.Headers = inv.upstream.header
        /\ inv.result.kind = "error" =>
             /\ inv.result.resp.isNil
             /\ IF inv.calls = 0 THEN inv.result.err \in BuildErrors
                ELSE inv.result.err \in TransportErrors

\* A Response with status 404 was returned, not an error.
C9_Witness ==
    /\ inv.pc = "done"
    /\ inv.result.kind = "response"
    /\ inv.result.resp.StatusCode = 404
    /\ inv.result.resp.Body = <<"part 1", "part 2">>

DoneWithError ==
    /\ inv.pc = "done"
    /\ inv.result.kind = "error"
    /\ inv.result.resp.isNil

\* Once the timeout has elapsed or the caller's context is cancelled while the
\* call is pending, the executor returns an error and no Response.
AbortLeadsToError == (Pending /\ (inv.expired \/ inv.cancelled)) ~> DoneWithError

OwnResult(i) ==
    i.pc # "idle" =>
        /\ \E order \in HeaderOrders(ConcConfig, ConcRoutes[i.executor]) :
              i.build = BuildRequest(ConcConfig, ConcRoutes[i.executor], i.args,
                                     "caller", order)
        /\ (i.pc = "done" /\ i.result.kind = "response") => i.result = ResponseOf(i.upstream)
        /\ (i.pc = "done" /\ i.result.kind = "error" /\ i.calls = 0)
              => i.result = ErrorResult(i.build.err)

\* C11: under every interleaving of concurrent invocations that share one
\* HTTPRequester, EndpointConfig and AuthManager, no step writes the shared
\* EndpointConfig, the executors' RouteConfigs or the client's timeout, and
\* each invocation's built request and Response depend only on its own route
\* and arguments.
C11_NoSharedWrites ==
    /\ [](\A p \in Procs : OwnResult(invs[p]))
    /\ [][cfg' = cfg /\ executors' = executors /\ timeout' = timeout]_vars

\* Two invocations of different executors are in flight at once, one reading
\* its response body while the other's request is on its way.
C11_Witness ==
    /\ invs[1].pc = "read"
    /\ invs[2].pc = "do"
    /\ invs[1].executor # invs[2].executor
    /\ invs[2].received = 1

\* C12: each executor invocation delivers at most one HTTP request to the
\* upstream, whatever the upstream answers and however the call fails: there
\* is one call of the client, and no second request follows a failure, a
\* timeout or a response status.
C12_AtMostOneDelivery ==
    /\ inv.calls <= 1
    /\ inv.received <= 1

(***************************************************************************)
(* C13: start-up                                                           *)
(***************************************************************************)
ExtractedNames == {routeTools[i].Tool.Name : i \in DOMAIN routeTools}

\* C13: no partial tool set is ever served: a tool is registered only after
\* the parser's Init has succeeded; the server is handed out and serves only
\* after AddTool has run for every extracted route; a failed Init ends
\* start-up with no tool registered, and what a client is served is the tool
\* of every extracted route.
C13_NoPartialToolSet ==
    /\ (DOMAIN srv.tools # {} \/ executors # NoExecutors) => srv.init = "ok"
    /\ srv.init = "error" =>
         (srv.pc = "exited" /\ srv.tools = NoTools /\ routeTools = <<>>)
    /\ srv.pc \in {"ready", "serving", "stopped", "shutdown", "returned"} =>
         /\ srv.init = "ok"
         /\ srv.next = Len(routeTools) + 1
         /\ Len(executors) = Len(routeTools)
         /\ DOMAIN srv.tools = ExtractedNames
    /\ call.op = "ListTools" =>
         (srv.pc \in {"serving", "shutdown", "returned"} /\ ret.names = ExtractedNames)

\* A serving server has listed the tools of a spec with two routes.
C13_Witness ==
    /\ srv.pc = "serving"
    /\ call.op = "ListTools"
    /\ Len(routeTools) = 2
    /\ Cardinality(ret.names) = 2

(***************************************************************************)
(* C14: tool names                                                         *)
(***************************************************************************)
\* The segments of a path: the leading slash dropped, the rest cut at "/",
\* braces dropped from each segment.
RECURSIVE PathSegments(_)
PathSegments(path) ==
    LET IsSlash(tok) == tok = "/"
        i == FirstIndex(path, IsSlash)
        Bare(seg) == [k \in 1..Cardinality({n \in DOMAIN seg : seg[n] \notin {"{", "}"}}) |->
                         LET kept == {n \in DOMAIN seg : seg[n] \notin {"{", "}"}}
                             n == CHOOSE n \in kept : Cardinality({x \in kept : x <= n}) = k
                         IN  seg[n]]
    IN  IF i = 0 THEN <<Bare(path)>>
        ELSE <<Bare(SubSeq(path, 1, i - 1))>> \o PathSegments(SubSeq(path, i + 1, Len(path)))

RECURSIVE JoinSegments(_)
JoinSegments(segs) ==
    IF Len(segs) = 0 THEN <<>>
    ELSE IF Len(segs) = 1 THEN segs[1]
    ELSE segs[1] \o <<"_">> \o JoinSegments(Tail(segs))

MethodPathSegments(method, path) ==
    LET rest == IF Len(path) > 0 /\ path[1] = "/" THEN Tail(path) ELSE path
        name == <<method, "_">> \o JoinSegments(PathSegments(rest))
    IN  [i \in DOMAIN name |-> ToLower(name[i])]

\* C14: the tool name of every extracted route is the lower-cased
\* method_pathsegments of its method and path: the segments joined by "_",
\* "{" and "}" removed; so two routes of the same method and path, in this
\* parse or a later one, have the same name, and GET /Users/{id} is named
\* get_users_id.
C14_ToolNameOfMethodAndPath ==
    \A i \in DOMAIN routeTools :
        LET route == routeTools[i].RouteConfig
            name == routeTools[i].Tool.Name
        IN  /\ name = MethodPathSegments(route.Method, route.Path)
            /\ (route.Method = "GET" /\ route.Path = PathUserId) =>
                   name = <<"get", "_", "users", "_", "id">>

\* A parse has extracted a route of the path with a parameter and capitals.
C14_Witness ==
    \E i \in DOMAIN routeTools :
        /\ routeTools[i].RouteConfig.Path = PathUserId
        /\ routeTools[i].RouteConfig.Method = "POST"
        /\ routeTools[i].Tool.Name = <<"post", "_", "users", "_", "id">>

(***************************************************************************)
(* C15, C16: schema translation                                            *)
(***************************************************************************)
SchemaCalled == call.op = "schemaToMCPOptions"
Typed(schema) == ~schema.nil /\ ~schema.Value.nil /\ ~schema.Value.Type.nil

\* The first of array, object, string, number/integer, boolean among a set
\* of declared types.
FirstInPriority(types) ==
    IF "array" \in types THEN "array"
    ELSE IF "object" \in types THEN "object"
    ELSE IF "string" \in types THEN "string"
    ELSE IF types \cap {"number", "integer"} # {} THEN "number"
    ELSE "boolean"

\* C15: when the schema declares types of which at least one is known, the
\* kind of the returned parameter is the first of array, object, string,
\* number/integer, boolean among the declared types: a function of the set
\* of the declared types, not of their order.
C15_TypePriority ==
    (/\ SchemaCalled
     /\ Typed(call.schema)
     /\ Range(call.schema.Value.Type.slice) \cap KnownTypes # {}
     /\ ret.kind = "option")
    => ret.type = FirstInPriority(Range(call.schema.Value.Type.slice))

\* A schema declaring string before array has been translated to an array.
C15_Witness ==
    /\ SchemaCalled
    /\ Typed(call.schema)
    /\ call.schema.Value.Type.slice = <<"string", "array">>
    /\ ret.kind = "option"
    /\ ret.type = "array"

\* C16: schemaToMCPOptions returns a parameter node for every input, and a
\* nil, untyped or unknown-typed schema gives an object node of the
\* requested name.
C16_NeverFails ==
    SchemaCalled =>
        /\ ret.kind = "option"
        /\ ret.name = call.name
        /\ (~Typed(call.schema)
            \/ Range(call.schema.Value.Type.slice) \cap KnownTypes = {})
           => ret.type = "object"

(***************************************************************************)
(* C17: the body schema of several content types                           *)
(***************************************************************************)
BodyContent == call.operation.RequestBody.Value.Content
HasContent ==
    /\ call.op = "getFirstBodySchema"
    /\ ~call.operation.RequestBody.nil
    /\ ~call.operation.RequestBody.Value.nil

\* The definition of a property name in the last content type, in the order
\* of declaration, whose schema has it.
LastDefinition(content, name) ==
    LET having == {i \in DOMAIN content : name \in DOMAIN MediaProperties(content[i])}
        last == CHOOSE i \in having : \A j \in having : j <= i
    IN  MediaProperties(content[last])[name]

\* C17: of two or more content types the body schema is an object whose
\* properties are the union of the content types' top-level properties, a
\* name declared by several of them keeping the later one's definition; a
\* single content type's schema is used as it is.
C17_UnionLaterWins ==
    HasContent =>
        /\ Len(BodyContent) = 1 => ret.schema = BodyContent[1]
        /\ Len(BodyContent) >= 2 =>
             /\ ret.schema.Value.Type.slice = <<"object">>
             /\ DOMAIN ret.schema.Value.Properties =
                    UNION {DOMAIN MediaProperties(BodyContent[i]) : i \in DOMAIN BodyContent}
             /\ \A n \in DOMAIN ret.schema.Value.Properties :
                    ret.schema.Value.Properties[n] = LastDefinition(BodyContent, n)

(***************************************************************************)
(* C18: the body of POST, PUT and PATCH requests                           *)
(***************************************************************************)
BuiltBody ==
    /\ call.op = "BuildRequest"
    /\ ~call.route.isNil
    /\ call.route.Method \in {"POST", "PUT", "PATCH"}
    /\ ret.err = ""

\* The declared form fields that args holds, in the order of declaration.
PresentFields(route, args) ==
    LET idx == {i \in DOMAIN route.FormFields : Has(args, route.FormFields[i])}
    IN  [k \in 1..Cardinality(idx) |->
            route.FormFields[CHOOSE i \in idx : Cardinality({j \in idx : j <= i}) = k]]

\* C18: the request BuildRequest returns for a POST, PUT or PATCH route has,
\* if the route declares a file upload, a multipart body (the file of args
\* under the configured field name, one text part per declared form field
\* that args holds), whether or not args holds "body"; else, if args holds
\* "body", the JSON text of it, which decodes to the same value, with the
\* content type application/json; else no body.
C18_BodyChoice ==
    BuiltBody =>
        LET route == call.route
            args == call.args
            body == ret.request.Body
        IN  IF route.FileUpload # ""
            THEN /\ body.kind = "multipart"
                 /\ \A i \in DOMAIN body.file :
                        /\ body.file[i].name = route.FileUpload
                        /\ body.file[i].data = args.m[route.FileUpload].s
                 /\ Len(body.file) =
                        IF Has(args, route.FileUpload) /\ args.m[route.FileUpload].t = "file"
                        THEN 1 ELSE 0
                 /\ [i \in DOMAIN body.fields |-> body.fields[i].name] = PresentFields(route, args)
                 /\ \A i \in DOMAIN body.fields :
                        body.fields[i].text = Sprintf(args.m[body.fields[i].name])
                 /\ ret.request.HttpRequest.Header["Content-Type"][1] = "multipart/form-data; boundary="
            ELSE IF Has(args, "body")
            THEN /\ body.kind = "json"
                 /\ jsonUnmarshal(body.data) = args.m["body"]
                 /\ ret.request.ContentType = JSONType
                 /\ ret.request.HttpRequest.Header["Content-Type"] = JSONType
            ELSE body = NoBody

\* A request was built for the upload route from args holding both a file
\* and "body": its body is multipart with the file part.
C18_Witness ==
    /\ BuiltBody
    /\ call.route.FileUpload = "file"
    /\ Has(call.args, "body")
    /\ Has(call.args, "file")
    /\ ret.request.Body.kind = "multipart"
    /\ Len(ret.request.Body.file) = 1

(***************************************************************************)
(* C19: header precedence                                                  *)
(***************************************************************************)
\* The keys of a header map that name the HTTP header K.
KeysFor(headers, K) == {k \in DOMAIN headers : CanonicalMIMEHeaderKey(k) = K}

\* C19: once BuildRequest has set the headers of the HTTP request, every
\* header holds the body's content type if it is Content-Type and a body
\* content type was produced, else the route's value if the route configures
\* that header, else the endpoint's value.
C19_HeaderPrecedence ==
    (/\ call.op = "BuildRequest"
     /\ ~call.route.isNil
     /\ ret.attempted.made)
    => LET header == ret.attempted.before.Header
           b == createRequestBody(call.route, call.args)
       IN  /\ DOMAIN header =
                  {CanonicalMIMEHeaderKey(k) : k \in DOMAIN cfg.Headers \cup DOMAIN call.route.Headers}
                  \cup (IF b.contentType # <<>> THEN {"Content-Type"} ELSE {})
           /\ \A K \in DOMAIN header :
                  IF K = "Content-Type" /\ b.contentType # <<>>
                  THEN header[K] = b.contentType
                  ELSE IF KeysFor(call.route.Headers, K) # {}
                  THEN \E k \in KeysFor(call.route.Headers, K) : header[K] = call.route.Headers[k]
                  ELSE \E k \in KeysFor(cfg.Headers, K) : header[K] = cfg.Headers[k]

(***************************************************************************)
(* C20: the exported adjustments document                                  *)
(***************************************************************************)
ExportWritten == call.op = "ExportRoutesToYamlFile" /\ ret.err = ""

\* The (entry, position) pairs of a list of groups: one per grouped value.
Members(groups, Size(_)) ==
    {<<i, j>> : i \in DOMAIN groups, j \in 1..MaxItems} \cap
    {x \in (DOMAIN groups) \X (1..MaxItems) : x[2] <= Size(groups[x[1]])}

\* C20: the document ExportRoutesToYamlFile writes lists under "routes", one
\* entry per path and none without a method, exactly the (path, method) of
\* the items not marked removed, and under "descriptions", one entry per
\* path, exactly the (path, method, new description) of the items with a
\* non-empty new description; no item, or only removed items without a new
\* description, gives a document with both lists empty.
C20_ExportedDocument ==
    ExportWritten =>
        LET items == call.routes
            d == ret.file.document
            kept == {i \in DOMAIN items : ~items[i].IsRemoved}
            edited == {i \in DOMAIN items : items[i].NewDescription # ""}
            NMethods(r) == Len(r.methods)
            NUpdates(r) == Len(r.updates)
            listed == Members(d.routes, NMethods)
            described == Members(d.descriptions, NUpdates)
        IN  /\ ret.file.exists
            /\ \A i, j \in DOMAIN d.routes : d.routes[i].path = d.routes[j].path => i = j
            /\ \A i \in DOMAIN d.routes : Len(d.routes[i].methods) > 0
            /\ {<<d.routes[x[1]].path, d.routes[x[1]].methods[x[2]]>> : x \in listed}
                   = {<<items[i].Path, items[i].Method>> : i \in kept}
            /\ \A x \in listed :
                   Cardinality({y \in listed :
                       /\ d.routes[y[1]].path = d.routes[x[1]].path
                       /\ d.routes[y[1]].methods[y[2]] = d.routes[x[1]].methods[x[2]]})
                   = Cardinality({i \in kept :
                       /\ items[i].Path = d.routes[x[1]].path
                       /\ items[i].Method = d.routes[x[1]].methods[x[2]]})
            /\ \A i, j \in DOMAIN d.descriptions :
                   d.descriptions[i].path = d.descriptions[j].path => i = j
            /\ \A i \in DOMAIN d.descriptions : Len(d.descriptions[i].updates) > 0
            /\ {<<d.descriptions[x[1]].path, d.descriptions[x[1]].updates[x[2]].method,
                  d.descriptions[x[1]].updates[x[2]].new_description>> : x \in described}
                   = {<<items[i].Path, items[i].Method, items[i].NewDescription>> : i \in edited}
            /\ Cardinality(described) = Cardinality(edited)
            /\ (kept = {} /\ edited = {}) => (d.routes = <<>> /\ d.descriptions = <<>>)

\* An export of a removed item with a new description and a kept item
\* without one: one route entry and one description entry were written.
C20_Witness ==
    /\ ExportWritten
    /\ Len(call.routes) = 2
    /\ call.routes[1].IsRemoved /\ call.routes[1].NewDescription # ""
    /\ ~call.routes[2].IsRemoved /\ call.routes[2].NewDescription = ""
    /\ Len(ret.file.document.routes) = 1
    /\ Len(ret.file.document.descriptions) = 1

(***************************************************************************)
(* C21: graceful shutdown                                                  *)
(***************************************************************************)
HTTPMode == srv.pc # "none" /\ srv.mode \in {"sse", "http"}

\* C21: in SSE or HTTP mode, once the context passed to Start is cancelled
\* Start returns in the end; it returns nil when Shutdown completed before
\* its deadline; and a listener goroutine that has a serve error to report
\* always gets past its send.
C21_GracefulShutdown ==
    /\ (HTTPMode /\ srv.ctxDone) ~> (srv.pc = "returned")
    /\ (srv.listener = "sending") ~> (srv.listener = "done")
    /\ [][(srv.pc = "shutdown" /\ srv'.pc = "returned" /\ ~srv.expired)
             => srv'.result = "nil"]_vars

\* Start has returned nil after a cancellation.
C21_Witness ==
    /\ HTTPMode
    /\ srv.ctxDone
    /\ srv.pc = "returned"
    /\ srv.result = "nil"
    /\ srv.listener = "done"

(***************************************************************************)
(* C22: OAuth in front of the MCP handler                                  *)
(***************************************************************************)
MCPRequest ==
    /\ call.op = "ServeHTTP"
    /\ call.oauth
    /\ call.r.Path \notin OAuthPaths

\* The token a request carries: that of its Authorization: Bearer header if
\* it has one, otherwise its token query parameter.
CarriedToken(r) ==
    IF Len(r.Authorization) >= 1 /\ r.Authorization[1] = "Bearer "
    THEN Tail(r.Authorization)
    ELSE r.token

Accepted(token, reachable) == token = <<"good">> /\ reachable

\* C22 as the spec states it: with OAuth enabled a request to an MCP
\* endpoint reaches the MCP handler only with a carried token that
\* ValidateAccessToken accepted, and any other request is answered 401 with
\* WWW-Authenticate.
C22_AsClaimed ==
    MCPRequest =>
        IF Accepted(CarriedToken(call.r), call.reachable)
        THEN TRUE
        ELSE /\ ret.servedBy # "mcp"
             /\ ret.status = 401
             /\ "WWW-Authenticate" \in ret.headers

\* C22, amended: with OAuth enabled a request to an MCP endpoint reaches the
\* MCP handler only with a carried token that ValidateAccessToken accepted;
\* a request without such a token never reaches it, and is answered 401 with
\* WWW-Authenticate unless it is an OPTIONS request, which the CORS
\* middleware answers 200 itself whatever token it carries.
C22_OnlyValidatedTokens ==
    MCPRequest =>
        /\ ret.servedBy = "mcp" =>
               /\ Accepted(CarriedToken(call.r), call.reachable)
               /\ ret.authInfo.set
               /\ ret.authInfo.Token = CarriedToken(call.r)
        /\ call.r.Method = "OPTIONS" => (ret.servedBy = "cors" /\ ret.status = 200)
        /\ (call.r.Method # "OPTIONS" /\ ~Accepted(CarriedToken(call.r), call.reachable)) =>
               /\ ret.servedBy = "middleware"
               /\ ret.status = 401
               /\ "WWW-Authenticate" \in ret.headers

\* A request whose Bearer header holds a bad token and whose query holds a
\* good one was answered 401.
C22_Witness ==
    /\ MCPRequest
    /\ call.r.Method = "POST"
    /\ call.r.Authorization = <<"Bearer ", "bad">>
    /\ call.r.token = <<"good">>
    /\ call.reachable
    /\ ret.status = 401
    /\ ret.servedBy = "middleware"

(***************************************************************************)
(* C23: the outcomes of a tool call                                        *)
(***************************************************************************)
ToolCalled == call.op = "CallTool"
Unauthorized == call.authEnabled /\ ~call.hasAuthInfo

\* C23: a tool call with auth enabled and no auth info in its context
\* returns the "Unauthorized" tool error and never starts the executor; any
\* other call invokes the executor once and returns a Go error and no result
\* if the executor failed, the tool error "HTTP Error <status>: <body>" and
\* no Go error if the status is 400 or more, and the body as a text result
\* otherwise.
C23_ToolCallOutcomes ==
    ToolCalled =>
        IF Unauthorized
        THEN /\ inv = IdleInv
             /\ ret.kind = "toolReturn"
             /\ ret.invoked = 0
             /\ ret.err = <<>>
             /\ ret.result.IsError
             /\ ret.result.text = <<"Unauthorized: No active user info in context">>
        ELSE /\ ret.invoked = 1
             /\ inv.pc # "idle"
             /\ ret.kind = "toolReturn" =>
                  /\ inv.pc = "done"
                  /\ IF inv.result.kind = "error"
                     THEN ret.err # <<>> /\ ret.result.isNil
                     ELSE /\ ret.err = <<>>
                          /\ ~ret.result.isNil
                          /\ IF inv.result.resp.StatusCode >= 400
                             THEN /\ ret.result.IsError
                                  /\ ret.result.text =
                                       <<"HTTP Error ", ToString(inv.result.resp.StatusCode), ": ">>
                                       \o inv.result.resp.Body
                             ELSE /\ ~ret.result.IsError
                                  /\ ret.result.text = inv.result.resp.Body

\* An authorized call whose upstream answered 400 has returned a tool error.
C23_Witness ==
    /\ ToolCalled
    /\ call.authEnabled
    /\ call.hasAuthInfo
    /\ ret.kind = "toolReturn"
    /\ inv.result.kind = "response"
    /\ inv.result.resp.StatusCode = 400
    /\ ret.result.IsError

(***************************************************************************)
(* C24: esc in the export view                                             *)
(***************************************************************************)
\* C24: the step that handles the BackToMainMsg that esc in the export view
\* asked for leaves the application on the main page.
C24_EscReturnsToMain ==
    [][("BackToMainMsg" \in app.pending /\ "BackToMainMsg" \notin app'.pending
        /\ app'.pc = "running")
       => app'.page = "main"]_vars

(***************************************************************************)
(* C29: the editor and the pages                                           *)
(***************************************************************************)
\* C29: while the main page or the export page is active the list model is
\* not in edit mode.
C29_EditorOnlyOnListPage ==
    app.page \in {"main", "export"} => ~app.editing

(***************************************************************************)
(* C30: saving an edit                                                     *)
(***************************************************************************)
EffectiveDescription(i) == IF i.NewDescription # "" THEN i.NewDescription ELSE i.Description

\* C30: the step that ends edit mode (ctrl+s in the editor) leaves the
\* edited item with the text of the editor as its effective description.
C30_SaveStoresText ==
    [][(app.editing /\ ~app'.editing)
       => EffectiveDescription(app'.items[app.editIndex]) = app.text]_vars

(***************************************************************************)
(* C25: export, then load                                                  *)
(***************************************************************************)
\* C25: once the exported file is loaded, ExistsInMCP is true of an item's
\* path and method exactly if the item was not marked removed.
C25_RoundTrip ==
    call.op = "Load" =>
        \A i \in DOMAIN call.routes :
            ExistsInMCP(adjustments, call.routes[i].Path, call.routes[i].Method)
                = ~call.routes[i].IsRemoved

(***************************************************************************)
(* C26: one route per identity                                             *)
(***************************************************************************)
\* C26: the published route tools hold at most one route of each path and
\* method, and each of them is an operation of the document parsed last.
C26_OneRoutePerIdentity ==
    /\ \A i, j \in DOMAIN routeTools :
          Identity(routeTools[i]) = Identity(routeTools[j]) => i = j
    /\ \A i \in DOMAIN routeTools :
          \E o \in doc.ops : o.path = Identity(routeTools[i]).path
                             /\ o.method = Identity(routeTools[i]).method

(***************************************************************************)
(* C27: tool names are unique per route                                    *)
(***************************************************************************)
\* C27: two different routes of one document have different tool names, and
\* every route registered so far is still the one its tool name is registered
\* for.
C27_UniqueToolNames ==
    /\ \A i, j \in DOMAIN routeTools :
          routeTools[i].Tool.Name = routeTools[j].Tool.Name => i = j
    /\ srv.pc = "registering" =>
          \A i \in 1..(srv.next - 1) :
              srv.tools[routeTools[i].Tool.Name]
                  = <<routeTools[i].RouteConfig.Method, routeTools[i].RouteConfig.Path>>

(***************************************************************************)
(* C28: the declared arguments reach the request                           *)
(***************************************************************************)
\* C28: the request built for a route at one of the five methods carries
\* every declared argument the caller supplied: a path parameter as the text
\* in the place of its placeholder, a declared query parameter under its name
\* in the query string, "body" as the JSON text of the request body.
C28_DeclaredArgsCarried ==
    (call.op = "BuildRequest" /\ ret.err = "") =>
        LET route == call.route
            args == call.args.m
            url == ret.request.HttpRequest.URL
        IN  \A k \in DOMAIN args :
              /\ k \in extractPathParams(route.Path) =>
                    \A i \in 1..Len(route.Path) :
                        (route.Path[i] = "{" /\ route.Path[i + 1] = k)
                            => url.tokens[i + 1] = Sprintf(args[k])
              /\ k \in Range(route.QueryParams) =>
                    (k \in DOMAIN url.query /\ url.query[k] = Sprintf(args[k]))
              /\ (k = "body" /\ k \in DeclaredArgs(route)) =>
                    /\ ret.request.Body.kind = "json"
                    /\ jsonUnmarshal(ret.request.Body.data) = args[k]

====
